---- MODULE Spec2Model ----
(***************************************************************************)
(* osprey-method-handler: the middleware chain built for one operation     *)
(* (resource path, headers, body, accept, query) and the multipart form    *)
(* session that validates parts as busboy emits them.                      *)
(***************************************************************************)
EXTENDS Integers, Sequences, FiniteSets, TLC

\* ------------------------------------------------------------------ bounds
\* Parts a multipart request delivers before its end-of-stream.
MaxParts == 3
\* Headers of one request that can fail validation.
MaxFailingHeaders == 1
\* Parts each of two concurrent multipart requests delivers.
MaxPairParts == 2

\* ------------------------------------------------------------- JS values
Str(s) == [str |-> s]
Num(n) == [num |-> n]
Bool(b) == [bool |-> b]
Stream(i) == [stream |-> i]
Undefined == [undefined |-> TRUE]

isStream(v) == "stream" \in DOMAIN v

\* Names every object inherits from Object.prototype: `obj[name]` on a
\* literal {} is truthy for them although no own property was ever set.
ObjectPrototypeKeys ==
  {"constructor", "toString", "valueOf", "hasOwnProperty"}

\* ----------------------------------------------------------------- errors
NoError == [status |-> 0, ramlValidation |-> FALSE, requestErrors |-> <<>>]

createError(status) ==
  [status |-> status, ramlValidation |-> FALSE, requestErrors |-> <<>>]

\* A validation error without the marker.
createValidationErrorUnmarked(errors) ==
  [status |-> 400, ramlValidation |-> FALSE, requestErrors |-> errors]

createValidationError(errors) ==
  [status |-> 400, ramlValidation |-> TRUE, requestErrors |-> errors]

formatRamlErrors(errors, type) ==
  [i \in 1..Len(errors) |->
     [type |-> type,
      dataPath |-> errors[i].key,
      keyword |-> errors[i].rule,
      schema |-> errors[i].attr,
      data |-> errors[i].value,
      message |-> <<"invalid", type, errors[i].rule, errors[i].attr>>]]

\* ---------------------------------------------------------------- engines
VARIABLES
  ajvSchemas,    \* keys added to the module's own Ajv instance
  customSchemas  \* keys added to the Ajv instance passed as options.ajv

\* --------------------------------------------------------------- operation
\* Media types with a parser and validator: the keys of BODY_HANDLERS.
BODY_HANDLERS ==
  {"application/json", "text/xml", "application/x-www-form-urlencoded",
   "multipart/form-data"}

\* Media types a request's Content-Type header may name.
MediaTypes == BODY_HANDLERS \cup {"text/html", "text/plain"}

\* Declared request bodies of the operation (method.request.payloads).
PayloadSets ==
  {{}, {"multipart/form-data"}, {"application/json"}, {"text/html"},
   {"application/json", "multipart/form-data"}, {"*/*"}, {"text/*"},
   {"application/*"},
   {"application/x-www-form-urlencoded", "text/xml"}}

\* Media types a declared type stands for: itself, or with a wildcard every
\* type, or every subtype of a type.
TypePattern(type) ==
  CASE type = "*/*" -> MediaTypes
    [] type = "text/*" -> {"text/xml", "text/html", "text/plain"}
    [] type = "application/*" ->
         {"application/json", "application/x-www-form-urlencoded"}
    [] OTHER -> {type}

typeIsExact(ct, types) == IF ct \in types THEN ct ELSE "none"

\* is.is(ct, types): the media type of ct when a declared type matches it
\* (the declared type itself, which is then the same, when it has no
\* wildcard), false ("none") when none does or there is no Content-Type.
typeIs(ct, types) ==
  IF \E t \in types : ct \in TypePattern(t) THEN ct ELSE "none"

\* A bodyMap that never attaches the handlers of a body matching several.
bodyMapSkippingWildcards(bodies, opts) ==
  UNION {LET handlers == {h \in BODY_HANDLERS : typeIs(h, {t}) # "none"}
         IN  IF Cardinality(handlers) > 1 THEN {} ELSE handlers : t \in bodies}

bodyMapParsingWildcards(bodies, opts) ==
  UNION {{h \in BODY_HANDLERS : typeIs(h, {t}) # "none"} : t \in bodies}

\* bodyMap of bodyHandler: the handlers attached for the declared bodies; a
\* body matching several handlers attaches none unless parseBodiesOnWildcard.
bodyMap(bodies, opts) ==
  UNION {LET handlers == {h \in BODY_HANDLERS : typeIs(h, {t}) # "none"}
         IN  IF Cardinality(handlers) > 1 /\ ~opts.parseBodiesOnWildcard
               THEN {} ELSE handlers : t \in bodies}

\* Media types declared on responses, as pairs of status code and type.
ResponseTypeSets ==
  {{}, {<<200, "text/html">>}, {<<404, "text/html">>},
   {<<200, "application/json">>, <<404, "text/html">>},
   {<<299, "text/html">>, <<300, "application/json">>},
   {<<199, "application/json">>},
   {<<200, "text/html">>, <<201, "application/json">>}}

\* method.responses: absent, or the media types its responses declare.
Responses ==
  {[present |-> FALSE, types |-> {}]}
  \cup {[present |-> TRUE, types |-> T] : T \in ResponseTypeSets}

\* Declared multipart form parameters, in key order (Object.keys(params)).
ParamKeys == <<"number", "items", "contents", "constructor">>

ParamNames == {ParamKeys[i] : i \in 1..Len(ParamKeys)}

ParamTypes ==
  [number |-> "number", items |-> "boolean", contents |-> "file",
   constructor |-> "string"]

\* body.formParameters of the multipart body: every parameter of ParamKeys,
\* `items` declared with repeat: true, those of `required` with required: true.
FormParameters(required) ==
  [name \in ParamNames |->
     [type |-> ParamTypes[name],
      repeat |-> (name = "items"),
      required |-> (name \in required)]]

\* Declared request headers (method.request.headers), as the API names them.
HeaderSets ==
  {<<>>,
   <<[name |-> "X-Header", type |-> "integer"]>>,
   <<[name |-> "X-Header", type |-> "integer"],
     [name |-> "X-Other", type |-> "integer"]>>,
   <<[name |-> "X-Header", type |-> "integer"],
     [name |-> "X-Name", type |-> "string"]>>}

\* Declared query parameters, in key order (Object.keys(queryParameters)).
QueryParameterSets ==
  {<<>>,
   <<[name |-> "a", type |-> "string", required |-> FALSE]>>,
   <<[name |-> "a", type |-> "string", required |-> FALSE],
     [name |-> "b", type |-> "integer", required |-> FALSE]>>,
   <<[name |-> "b", type |-> "integer", required |-> TRUE],
     [name |-> "a", type |-> "boolean", required |-> FALSE]>>}

\* method.queryParameters: absent, or the declared parameters.
QueryParameters ==
  {[present |-> FALSE, params |-> <<>>]}
  \cup {[present |-> TRUE, params |-> ps] : ps \in QueryParameterSets}

\* body.schema of the declared bodies that are not forms: absent, a schema
\* text that compiles, or one that does not (malformed JSON or XML, an
\* unresolved $ref).
Schemas == {"none", "valid", "malformed"}

\* The RAML type of a JSON body, with the properties of RAML_DT: absent, or
\* its minProperties and maxProperties (0: not given) and its
\* additionalProperties (false, true or not given).
NoType ==
  [present |-> FALSE, minProperties |-> 0, maxProperties |-> 0,
   additionalProperties |-> "unset"]

TypeDeclarations ==
  {NoType}
  \cup [present : {TRUE}, minProperties : {0, 2}, maxProperties : {0, 1},
        additionalProperties : {"unset", "false", "true"}]

\* The schema text of a JSON body names a draft in $schema and may hold a
\* $ref to the key "product" of an external schema.
\* An operation: its declared bodies and their schema, whether the multipart
\* body declares formParameters (and which of them are required), responses
\* and query.
Methods ==
  {m \in [defined : {TRUE},
          headers : HeaderSets,
          payloads : PayloadSets,
          schema : Schemas,
          type : TypeDeclarations,
          draft : {"04", "03"},
          ref : {"none", "product"},
          formParameters : BOOLEAN,
          required : SUBSET ParamNames,
          responses : Responses,
          queryParameters : QueryParameters] :
     /\ m.formParameters =>
          m.payloads \cap {"multipart/form-data",
                           "application/x-www-form-urlencoded"} # {}
     /\ ~m.formParameters => m.required = {}
     /\ m.schema # "none" =>
          m.payloads \ {"multipart/form-data",
                        "application/x-www-form-urlencoded"} # {}
     /\ m.type.present =>
          m.schema = "none" /\ m.payloads = {"application/json"}
     /\ m.ref # "none" => m.schema = "valid"
     /\ (m.draft = "03" \/ m.ref # "none") =>
          /\ m.schema # "none"
          /\ m.payloads \in {{"application/json"}, {"*/*"}}}

\* The method argument of a call without an operation: undefined.
NoMethod ==
  [defined |-> FALSE, headers |-> <<>>, payloads |-> {}, schema |-> "none",
   type |-> NoType, draft |-> "04", ref |-> "none",
   formParameters |-> FALSE, required |-> {},
   responses |-> [types |-> {}, present |-> FALSE],
   queryParameters |-> [present |-> FALSE, params |-> <<>>]]

\* options.ajv: absent ("default": the module's own instance compiles), or
\* an instance of the caller, which rejects a document naming the draft-03
\* meta-schema ("custom") or was set up to accept it ("custom03").
Options ==
  [discardUnknownBodies : BOOLEAN, discardUnknownQueryParameters : BOOLEAN,
   discardUnknownHeaders : BOOLEAN, parseBodiesOnWildcard : BOOLEAN,
   ajv : {"default", "custom", "custom03"}]

DEFAULT_OPTIONS ==
  [discardUnknownBodies |-> TRUE, discardUnknownQueryParameters |-> TRUE,
   discardUnknownHeaders |-> TRUE, parseBodiesOnWildcard |-> FALSE,
   ajv |-> "default"]

acceptedTypesOfAllCodes(responses) == {p[2] : p \in responses.types}

\* mediaTypes of acceptsHandler: the types declared on responses whose code
\* is at least 200 and below 300.
acceptedTypes(responses) ==
  {p[2] : p \in {q \in responses.types : q[1] >= 200 /\ q[1] < 300}}

\* acceptsHandler returns [] when no 2xx response declares a media type;
\* compose flattens the empty array away.
acceptsHandler(responses) ==
  IF acceptedTypes(responses) = {} THEN <<>> ELSE <<"ospreyAccepts">>

\* The installed handlers that build a validator from body.schema or from
\* the body's RAML type: jsonBodyValidationHandler and
\* xmlBodyValidationHandler.
compiling(method, options) ==
  bodyMap(method.payloads, options)
  \cap ((IF method.schema # "none" \/ method.type.present
           THEN {"application/json"} ELSE {})
        \cup (IF method.schema # "none" THEN {"text/xml"} ELSE {}))

\* No exception.
NoThrow == [message |-> <<>>]

\* A construction that leaves a schema's compilation to the first request.
constructionErrorDeferred(method, options) == NoThrow

\* A conversion of draft-03 documents whichever engine compiles them.
upgradedAlways(method, options) == method.draft = "03"

\* JSON_SCHEMA_03.test(schema.$schema) without options.ajv: the document is
\* converted with jsonSchemaCompatibility.v4 and renamed to draft-04.
upgraded(method, options) == options.ajv = "default" /\ method.draft = "03"

\* A compiler that resolves a $ref whether or not its key was added.
unresolvedNever(method, options) == FALSE

\* The engine that compiles (options.ajv, else the module's) holds no schema
\* under the key the document refers to.
unresolved(method, options) ==
  /\ method.ref # "none"
  /\ method.ref \notin (IF options.ajv = "default" THEN ajvSchemas
                                                   ELSE customSchemas)

\* JSON.parse(schema) or compile(schema) throws: the text is malformed, a
\* $ref is unresolved, or the document names a meta-schema the engine does
\* not know.
jsonCompileFails(method, options) ==
  \/ method.schema = "malformed"
  \/ unresolved(method, options)
  \/ /\ method.draft = "03"
     /\ ~upgraded(method, options)
     /\ options.ajv # "custom03"

\* The exception that escapes ospreyMethodHandler: the TypeError of
\* `method.method.value()` for a method that is undefined, else the one
\* bodyHandler lets escape while it builds the handlers, in BODY_HANDLERS
\* order: the compiler's error with the message prefixed by the kind of
\* schema, the method and the path.
constructionError(method, options) ==
  IF ~method.defined
    THEN [message |-> <<"TypeError", "method", "of undefined">>]
  ELSE
  IF \/ /\ "application/json" \in compiling(method, options)
        /\ jsonCompileFails(method, options)
     \/ /\ "text/xml" \in compiling(method, options)
        /\ method.schema = "malformed"
    THEN [message |->
            <<"Unable to compile",
              IF "application/json" \in compiling(method, options)
                THEN "JSON" ELSE "XML",
              "schema for", "GET", "path">>]
    ELSE NoThrow

ospreyMethodHandlerSwapped(method, options) ==
  <<"resourcePathAttacher", "ospreyMethodHeader">>
  \o (IF method.payloads # {}
        THEN <<"ospreyContentType">>
        ELSE IF options.discardUnknownBodies THEN <<"discardBody">> ELSE <<>>)
  \o (IF method.queryParameters.present
        THEN <<"ospreyQuery">>
        ELSE IF options.discardUnknownQueryParameters
               THEN <<"ospreyFastQuery">> ELSE <<>>)
  \o (IF method.responses.present
        THEN acceptsHandler(method.responses) ELSE <<>>)

\* The middleware array ospreyMethodHandler hands to compose; none when a
\* handler factory throws.
ospreyMethodHandler(method, options) ==
  IF constructionError(method, options) # NoThrow THEN <<>>
  ELSE
  <<"resourcePathAttacher", "ospreyMethodHeader">>
  \o (IF method.payloads # {}
        THEN <<"ospreyContentType">>
        ELSE IF options.discardUnknownBodies THEN <<"discardBody">> ELSE <<>>)
  \o (IF method.responses.present
        THEN acceptsHandler(method.responses) ELSE <<>>)
  \o (IF method.queryParameters.present
        THEN <<"ospreyQuery">>
        ELSE IF options.discardUnknownQueryParameters
               THEN <<"ospreyFastQuery">> ELSE <<>>)

\* A construction that builds no validator.
compiledKindsNone(method, options) == {}

\* The kinds of declaration for which the handler factories build a
\* validator: queryHandler, jsonBodyValidationHandler,
\* xmlBodyValidationHandler, urlencodedBodyValidationHandler and
\* formDataBodyHandler. headerHandler builds none.
compiledKinds(method, options) ==
  (IF method.queryParameters.present THEN {"query"} ELSE {})
  \cup {"json" : t \in compiling(method, options) \cap {"application/json"}}
  \cup {"xml" : t \in compiling(method, options) \cap {"text/xml"}}
  \cup {"form" : t \in {h \in bodyMap(method.payloads, options) :
                          /\ method.formParameters
                          /\ h \in {"multipart/form-data",
                                    "application/x-www-form-urlencoded"}}}

\* The handler before ospreyMethodHandler was called.
NotBuilt ==
  [state |-> "no", compiled |-> {}, upgraded |-> FALSE, before |-> {}]

\* What a call of ospreyMethodHandler leaves behind: whether it returned
\* ("ok") or threw, the validators built, whether the JSON schema document
\* was converted to draft-04, and the addJsonSchema calls made before it.
Built(method, options, callsBefore) ==
  [state |-> IF constructionError(method, options) # NoThrow
               THEN "threw" ELSE "ok",
   compiled |-> IF constructionError(method, options) # NoThrow
                  THEN {} ELSE compiledKinds(method, options),
   upgraded |-> /\ "application/json" \in compiling(method, options)
                /\ method.schema # "malformed"
                /\ upgraded(method, options),
   before |-> callsBefore]

\* ----------------------------------------------- sanitize and validate
\* Strings Number() reads as a number.
NumericStrings == ("12345" :> 12345)

toNumber(value) ==
  IF "str" \in DOMAIN value /\ value.str \in DOMAIN NumericStrings
    THEN Num(NumericStrings[value.str])
    ELSE value

toBoolean(value) ==
  IF value = Str("true") THEN Bool(TRUE)
  ELSE IF value = Str("false") THEN Bool(FALSE)
  ELSE value

\* sanitizers[key] = ramlSanitize.rule(extend(params[key], {repeat: false})):
\* one value is coerced to the declared type, or returned as it came.
sanitizers(param, value) ==
  CASE param.type \in {"number", "integer"} -> toNumber(value)
    [] param.type = "boolean" -> toBoolean(value)
    [] OTHER -> value

TypeOk(type, value) ==
  CASE type \in {"number", "integer"} -> "num" \in DOMAIN value
    [] type = "boolean" -> "bool" \in DOMAIN value
    [] type = "string" -> "str" \in DOMAIN value
    [] type = "file" -> isStream(value)

\* validators[key] = ramlValidate.rule(extend(params[key], {repeat: false}))
\* applied to a value that is present.
validators(param, value, key) ==
  IF TypeOk(param.type, value)
    THEN [valid |-> TRUE, rule |-> "none", value |-> value, key |-> key,
          attr |-> "none"]
    ELSE [valid |-> FALSE, rule |-> "type", value |-> value, key |-> key,
          attr |-> param.type]

requiredError(key) ==
  [valid |-> FALSE, rule |-> "required", value |-> Undefined, key |-> key,
   attr |-> "true"]

\* ------------------------------------------------------------------ state
VARIABLES
  method,        \* the operation the handler was built for
  options,       \* extend(DEFAULT_OPTIONS, options)
  middleware,    \* the array handed to compose
  index,         \* compose: position of the stage dispatched last (0: none)
  log,           \* stages started, in start order
  passed,        \* stages that called next() without an error
  failed,        \* stages that called next(err)
  done,          \* "pending", "handler" (done()), "error" (done(err))
  doneErr,       \* the error handed to done
  doneCalls,     \* times the chain's final continuation was called
  thrown,        \* TypeErrors compose threw for a repeated next()
  req,           \* resourcePath, headers/body/query marks of the request
  draining,      \* discardBody resumed the stream and awaits end/error
  streamEvents,  \* stream events delivered while draining
  session,       \* "none" or "open": the multipart form session (req.form)
  parts,         \* parts the parser emitted so far, in arrival order
  received,      \* own keys of `received`
  errored,       \* the session's failed flag
  errors,        \* own entries of `errors`, in key insertion order
  forwarded,     \* events passed on to Busboy.prototype.emit
  drained,       \* parts whose file stream was resumed by close()
  busboyDone,    \* busboy's _done
  finishCalls,   \* 'finish' events handed to emit
  peer,          \* the form session of a second request in flight
  calls,         \* addJsonSchema calls made: <<key, with options.ajv>>
  built,         \* what the construction of the handler compiled
  lazy,          \* kinds of declaration a request was validated against
                 \* without a validator built at construction
  validateErrors,\* validate.errors of the compiled JSON validator
  reports        \* the validations the JSON validator has run

registryVars == <<ajvSchemas, customSchemas, calls, built>>

validatorVars == <<validateErrors, reports>>

engineVars == <<registryVars, validatorVars>>

chainVars ==
  <<method, options, middleware, index, log, passed, failed, done, doneErr,
    doneCalls, thrown, req, draining, streamEvents, lazy, engineVars>>

formVars ==
  <<session, parts, received, errored, errors, forwarded, drained,
    busboyDone, finishCalls, peer>>

vars == <<chainVars, formVars>>

\* ------------------------------------------------------------ the request
Req0 ==
  [resourcePath |-> "unset", rawHeaders |-> <<>>, headers |-> <<>>,
   hasBody |-> FALSE, contentType |-> "unread",
   bodyStream |-> "unread", body |-> Undefined, rawBody |-> Undefined,
   reader |-> "unread",
   accept |-> "unread",
   received |-> <<>>, url |-> <<>>, query |-> "raw",
   queryObject |-> [n \in {} |-> Undefined]]

\* Content-Type headers a request may carry ("none": no such header).
ContentTypes == {"none"} \cup MediaTypes

\* ---------------------------------------------------------------- compose
\* The stage whose handler has been dispatched and has not yet called next.
Running(stage) ==
  /\ done = "pending"
  /\ index \in 1..Len(middleware)
  /\ middleware[index] = stage

\* A composition that drops the pending error and runs the next stage anyway.
DispatchIgnoringError(err) ==
  /\ index' = index + 1
  /\ IF err # NoError
       THEN /\ failed' = failed \cup {middleware[index]}
            /\ doneErr' = err
            /\ UNCHANGED passed
       ELSE /\ passed' = passed \cup {middleware[index]}
            /\ UNCHANGED <<failed, doneErr>>
  /\ IF index + 1 > Len(middleware)
       THEN /\ done' = "handler"
            /\ doneCalls' = doneCalls + 1
            /\ UNCHANGED log
       ELSE /\ log' = Append(log, middleware[index + 1])
            /\ UNCHANGED <<done, doneCalls>>

\* A composition that runs every stage and reports the last error at the end.
DispatchReportingLast(err) ==
  /\ index' = index + 1
  /\ IF err # NoError
       THEN /\ failed' = failed \cup {middleware[index]}
            /\ doneErr' = err
            /\ UNCHANGED passed
       ELSE /\ passed' = passed \cup {middleware[index]}
            /\ UNCHANGED <<failed, doneErr>>
  /\ IF index + 1 > Len(middleware)
       THEN /\ done' = IF err # NoError \/ doneErr # NoError
                         THEN "error" ELSE "handler"
            /\ doneCalls' = doneCalls + 1
            /\ UNCHANGED log
       ELSE /\ log' = Append(log, middleware[index + 1])
            /\ UNCHANGED <<done, doneCalls>>

\* dispatch(pos + 1, err): a pending error skips every remaining stage (none
\* takes four arguments) and reaches done(err); otherwise the next stage is
\* started, or done() when the array is exhausted.
Dispatch(err) ==
  IF err # NoError
    THEN /\ index' = Len(middleware) + 1
         /\ done' = "error"
         /\ doneErr' = err
         /\ doneCalls' = doneCalls + 1
         /\ failed' = failed \cup {middleware[index]}
         /\ UNCHANGED <<log, passed>>
    ELSE /\ index' = index + 1
         /\ passed' = passed \cup {middleware[index]}
         /\ IF index + 1 > Len(middleware)
              THEN /\ done' = "handler"
                   /\ doneCalls' = doneCalls + 1
                   /\ UNCHANGED log
              ELSE /\ log' = Append(log, middleware[index + 1])
                   /\ UNCHANGED <<done, doneCalls>>
         /\ UNCHANGED <<doneErr, failed>>

\* The router hands the request to the composed middleware: dispatch(0).
Request ==
  /\ middleware # <<>>
  /\ index = 0
  /\ index' = 1
  /\ log' = <<middleware[1]>>
  /\ UNCHANGED <<engineVars, lazy, method, options, middleware,
                 passed, failed, done, doneErr,
                 doneCalls, thrown, req, draining, streamEvents, formVars>>

\* ----------------------------------------------------------------- stages
resourcePathAttacher ==
  /\ Running("resourcePathAttacher")
  /\ req' = [req EXCEPT !.resourcePath = "path"]
  /\ Dispatch(NoError)
  /\ UNCHANGED <<engineVars, lazy, method, options, middleware,
                 thrown, draining, streamEvents,
                 formVars>>

\* Raw values a request may give a parameter of a declared type.
RawValues(type) ==
  CASE type = "integer" -> {"value", "12345"}
    [] type = "boolean" -> {"value", "true"}
    [] OTHER -> {"value"}

\* String.prototype.toLowerCase on the header names of the model.
toLowerCase(name) ==
  CASE name = "X-Header" -> "x-header"
    [] name = "X-Other" -> "x-other"
    [] name = "X-Name" -> "x-name"
    [] OTHER -> name

\* Names of standardHeaders.request, the keys of
\* DEFAULT_REQUEST_HEADER_PARAMS (each a string parameter, not required).
DEFAULT_REQUEST_HEADER_PARAMS == {"accept", "content-type", "user-agent"}

\* schemas of headerHandler: the standard headers extended by the declared
\* ones under their lower-cased names; a name mapped to its type.
schemas(headers) ==
  [n \in DEFAULT_REQUEST_HEADER_PARAMS
         \cup {toLowerCase(headers[i].name) : i \in 1..Len(headers)} |->
     IF \E i \in 1..Len(headers) : toLowerCase(headers[i].name) = n
       THEN (CHOOSE d \in {headers[i] : i \in 1..Len(headers)} :
               toLowerCase(d.name) = n).type
       ELSE "string"]

\* schemas[name] read as a condition: an own key, or a property the object
\* inherits from Object.prototype.
schemaLookup(sch, name) == name \in DOMAIN sch \/ name \in ObjectPrototypeKeys

RECURSIVE DeclaredHeaderLists(_)
\* The declared headers a request may carry, each absent or with a raw value.
DeclaredHeaderLists(headers) ==
  IF headers = <<>> THEN {<<>>}
  ELSE LET rest == DeclaredHeaderLists(Tail(headers))
       IN  rest \cup {<<<<toLowerCase(Head(headers).name), v>>>> \o hs :
                        hs \in rest, v \in RawValues(Head(headers).type)}

\* schema.validate(value): the report of one header value.
validateHeader(type, name, raw) ==
  IF TypeOk(type, sanitizers([type |-> type], Str(raw)))
    THEN [conforms |-> TRUE, results |-> <<>>]
    ELSE [conforms |-> FALSE,
          results |-> <<[keyword |-> "type", targetProperty |-> name,
                         level |-> "Violation", message |-> "invalid"]>>]

\* Headers of the list whose report does not conform.
FailingHeaders(sch, hs) ==
  {i \in 1..Len(hs) :
     /\ hs[i][1] \in DOMAIN sch
     /\ ~validateHeader(sch[hs[i][1]], hs[i][1], hs[i][2]).conforms}

\* Headers a request may carry (req.headers, names in lower case): the
\* declared ones, a standard one, and at most one that is neither, in front
\* or behind.
HeaderLists(headers) ==
  {extra[1] \o hs \o <<<<"user-agent", "curl">>>> \o extra[2] :
     hs \in {l \in DeclaredHeaderLists(headers) :
               Cardinality(FailingHeaders(schemas(headers), l))
                 <= MaxFailingHeaders},
     extra \in {<<<<>>, <<>>>>,
                <<<<<<"x-unknown", "1">>>>, <<>>>>,
                <<<<>>, <<<<"x-unknown", "1">>>>>>,
                <<<<>>, <<<<"constructor", "1">>>>>>}}

formatRamlValidationReport(report, type) ==
  [i \in 1..Len(report.results) |->
     [type |-> type,
      keyword |-> report.results[i].keyword,
      targetProperty |-> report.results[i].targetProperty,
      level |-> report.results[i].level,
      message |-> <<"invalid", type, report.results[i].message,
                    report.results[i].keyword>>]]

HeaderError(sch, header) ==
  createValidationError(formatRamlValidationReport(
    validateHeader(sch[header[1]], header[1], header[2]), "header"))

\* definedHeaders: with discardUnknownHeaders, the headers that have a schema.
definedHeaders(sch, hs, opts) ==
  IF opts.discardUnknownHeaders
    THEN SelectSeq(hs, LAMBDA h : schemaLookup(sch, h[1]))
    ELSE hs

Min(S) == CHOOSE x \in S : \A y \in S : x <= y

\* The promise of the stage rejects before next was called: the chain
\* neither continues nor ends.
Reject ==
  /\ done' = "rejected"
  /\ UNCHANGED <<index, log, passed, failed, doneErr, doneCalls>>

\* The reports of the headers are awaited, then visited in header order:
\* one next(err) per failing report, then next(). A header whose schema is
\* an inherited property has no validate to call, and a header without a
\* schema has no report to read: both throw a TypeError, as does every call
\* of next after the first.
ospreyMethodHeader ==
  /\ Running("ospreyMethodHeader")
  /\ \E hs \in HeaderLists(method.headers) :
       LET sch == schemas(method.headers)
           kept == definedHeaders(sch, hs, options)
           inherited == {i \in 1..Len(kept) :
                           /\ kept[i][1] \notin DOMAIN sch
                           /\ kept[i][1] \in ObjectPrototypeKeys}
           unreported == {i \in 1..Len(kept) : kept[i][1] \notin DOMAIN sch}
           failing == FailingHeaders(sch, kept)
       IN  /\ req' = [req EXCEPT !.rawHeaders = hs, !.headers = kept]
           /\ lazy' = lazy \cup {"header"}
           /\ IF inherited # {}
                THEN Reject /\ thrown' = thrown + 1
                ELSE IF failing = {} /\ unreported = {}
                  THEN Dispatch(NoError) /\ UNCHANGED thrown
                  ELSE IF /\ failing # {}
                          /\ unreported # {} => Min(failing) < Min(unreported)
                    THEN /\ Dispatch(HeaderError(sch, kept[Min(failing)]))
                         /\ thrown' = thrown + 1
                    ELSE Reject /\ thrown' = thrown + 1
  /\ UNCHANGED <<engineVars, method, options, middleware, draining,
                 streamEvents, formVars>>

\* A form stage that opens the session and keeps the chain waiting.
ospreyMethodFormHolding ==
  /\ session' = "open"
  /\ UNCHANGED <<parts, received, errored, errors, forwarded, drained,
                 busboyDone, finishCalls, peer>>
  /\ UNCHANGED <<index, log, passed, failed, done, doneErr, doneCalls>>

\* ospreyMethodForm: a fresh session on req.form, then next() at once.
ospreyMethodForm ==
  /\ session' = "open"
  /\ parts' = <<>>
  /\ received' = {}
  /\ errored' = FALSE
  /\ errors' = <<>>
  /\ forwarded' = <<>>
  /\ drained' = {}
  /\ busboyDone' = FALSE
  /\ finishCalls' = 0
  /\ UNCHANGED peer
  /\ Dispatch(NoError)

\* A parameter name no operation of the model declares.
UnknownQueryName == "c"

RECURSIVE QueryStrings(_)
\* Query strings a request to the operation may carry, as name=value pairs:
\* each declared parameter absent or present, after the parameters declared
\* behind it, and the undeclared one in front or absent.
QueryStrings(params) ==
  IF params = <<>> THEN {<<>>, <<<<UnknownQueryName, "value">>>>}
  ELSE LET rest == QueryStrings(Tail(params))
       IN  rest \cup {Append(qs, <<Head(params).name, v>>) :
                        qs \in rest, v \in RawValues(Head(params).type)}

\* parseQuerystring(reqUrl.query): an object of the raw strings.
parseQuerystring(qs) ==
  [n \in {qs[i][1] : i \in 1..Len(qs)} |->
     Str((CHOOSE p \in {qs[i] : i \in 1..Len(qs)} : p[1] = n)[2])]

Declaration(params, name) ==
  CHOOSE d \in {params[i] : i \in 1..Len(params)} : d.name = name

DeclaredNames(params) == {params[i].name : i \in 1..Len(params)}

sanitizeKeepingUnknown(params, model) ==
  [n \in DOMAIN model |->
     IF n \in DeclaredNames(params)
       THEN sanitizers(Declaration(params, n), model[n]) ELSE model[n]]

\* ramlSanitize(schema)(model): the declared keys the model has, sanitized.
sanitize(params, model) ==
  [n \in DeclaredNames(params) \cap DOMAIN model |->
     sanitizers(Declaration(params, n), model[n])]

RECURSIVE validate(_, _)
\* ramlValidate(schema)(model).errors: per declared key, in key order, the
\* failed rule of a value that is present, or `required` for a missing one.
validate(params, model) ==
  IF params = <<>> THEN <<>>
  ELSE LET d == Head(params)
       IN  (IF d.name \in DOMAIN model
              THEN LET result == validators(d, model[d.name], d.name)
                   IN  IF result.valid THEN <<>> ELSE <<result>>
              ELSE IF d.required THEN <<requiredError(d.name)>> ELSE <<>>)
           \o validate(Tail(params), model)

\* ------------------------------------------------------------ body values
\* properties of the RAML type of a JSON body: RAML_DT of the tests.
RAML_DT == <<[name |-> "foo", type |-> "string", required |-> TRUE]>>

\* formParameters of a url-encoded body.
UrlencodedParameters ==
  <<[name |-> "a", type |-> "string", required |-> FALSE],
    [name |-> "b", type |-> "integer", required |-> TRUE]>>

\* A validator follows the JSON reader: the body has a schema or a type.
JsonValidated == method.schema # "none" \/ method.type.present

\* JSON objects a request may send: foo a string or a number, or absent, and
\* up to two more keys. A body nobody validates stands for all of them.
JsonBodies ==
  IF ~JsonValidated THEN {[k \in {"foo"} |-> Str("bar")]}
  ELSE UNION {{[k \in K |-> IF k = "foo" THEN v ELSE Str("x")] :
                 v \in IF "foo" \in K THEN {Str("bar"), Num(1)}
                                      ELSE {Str("bar")}} :
                K \in SUBSET {"foo", "bar", "baz"}}

\* The outcomes of a body reader (body-parser): the body was read, its
\* syntax is malformed, or it exceeds options.limit.
ReaderOutcomes == {"ok", "parse", "limit"}

\* A reader whose failure is signalled as a validation error.
ReaderErrorMarked(outcome) ==
  createValidationError(<<[type |-> "json", keyword |-> outcome]>>)

\* The error of a failed reader: body-parser's 400 for malformed input (the
\* XML parser's error is given status 400 as well) and 413 past the limit.
ReaderError(outcome) ==
  IF outcome = "parse" THEN createError(400) ELSE createError(413)

\* validate.errors after validate(body), for the compiled JSON schema
\* {required: [foo], properties: {foo: {type: string}}} with allErrors.
ajvErrors(body) ==
  IF "foo" \notin DOMAIN body
    THEN <<[keyword |-> "required", dataPath |-> "", data |-> body,
            schema |-> "required", message |-> "should have required property"]>>
  ELSE IF "str" \notin DOMAIN body["foo"]
    THEN <<[keyword |-> "type", dataPath |-> "/foo", data |-> body["foo"],
            schema |-> "string", message |-> "should be string"]>>
  ELSE <<>>

formatJsonErrors(errs) ==
  [i \in 1..Len(errs) |->
     [type |-> "json",
      keyword |-> errs[i].keyword,
      dataPath |-> errs[i].dataPath,
      message |-> errs[i].message,
      data |-> errs[i].data,
      schema |-> errs[i].schema]]

\* A validation step that formats the errors the validator held before the
\* call.
ospreyJsonBodyErrorsStale(body, before) == formatJsonErrors(before)

\* ospreyJsonBody for a JSON schema: validate(req.body), then validate.errors
\* is read in the same turn.
ospreyJsonBodyErrors(body, before) == formatJsonErrors(ajvErrors(body))

\* The list the primary validator of a JSON body signals: ramlValidate for a
\* RAML type, the compiled schema otherwise; empty when the body is valid.
primaryErrors(body) ==
  IF method.type.present
    THEN formatRamlErrors(validate(RAML_DT, body), "json")
    ELSE ospreyJsonBodyErrors(body, validateErrors)

\* The error object of a property-count pass: {rule, attr}.
countError(rule, attr) ==
  formatRamlErrors(<<[rule |-> rule, attr |-> attr, key |-> Undefined,
                      value |-> Undefined]>>, "json")

\* The middleware jsonBodyHandler composes behind the reader, each as the
\* error list it signals for the body: the primary validator, and for a RAML
\* type the minProperties pass (when above 0), the maxProperties pass (when
\* above 0) and the additionalProperties pass (`if (!additionalProperties)`:
\* when false or not given), which looks the keys up in the properties.
jsonPasses(body) ==
  <<primaryErrors(body)>>
  \o (IF ~method.type.present THEN <<>>
      ELSE (IF method.type.minProperties > 0
              THEN <<IF Cardinality(DOMAIN body) < method.type.minProperties
                       THEN countError("minProperties",
                                       method.type.minProperties)
                       ELSE <<>>>>
              ELSE <<>>)
        \o (IF method.type.maxProperties > 0
              THEN <<IF Cardinality(DOMAIN body) > method.type.maxProperties
                       THEN countError("maxProperties",
                                       method.type.maxProperties)
                       ELSE <<>>>>
              ELSE <<>>)
        \o (IF method.type.additionalProperties # "true"
              THEN <<IF DOMAIN body \subseteq DeclaredNames(RAML_DT)
                       THEN <<>>
                       ELSE countError("additionalProperties",
                                       method.type.additionalProperties)>>
              ELSE <<>>))

RECURSIVE everyError(_)
\* A chain in which every pass runs and the errors are collected.
everyError(passes) ==
  IF passes = <<>> THEN <<>> ELSE Head(passes) \o everyError(Tail(passes))

\* compose: the first pass that signals an error ends the chain.
firstError(passes) ==
  IF \A i \in 1..Len(passes) : passes[i] = <<>> THEN <<>>
  ELSE passes[CHOOSE i \in 1..Len(passes) :
                /\ passes[i] # <<>>
                /\ \A j \in 1..(i - 1) : passes[j] = <<>>]

\* What a run of the primary validator leaves on the validator.
Validated(body) ==
  /\ validateErrors' = IF method.type.present THEN validateErrors
                       ELSE ajvErrors(body)
  /\ reports' = Append(reports, [body |-> body, errors |-> primaryErrors(body)])

\* A failed reader ends the composed handler: no validator runs.
readerFailed(ct, outcome) ==
  /\ req' = [req EXCEPT !.hasBody = TRUE, !.contentType = ct,
                        !.bodyStream = "read", !.reader = outcome]
  /\ Dispatch(ReaderError(outcome))
  /\ UNCHANGED validatorVars

\* The JSON reader composed with the validators of the body.
jsonBodyHandler(ct) ==
  /\ \E outcome \in ReaderOutcomes :
       IF outcome # "ok" THEN readerFailed(ct, outcome)
       ELSE \E body \in JsonBodies :
              /\ req' = [req EXCEPT !.hasBody = TRUE, !.contentType = ct,
                                    !.bodyStream = "read", !.reader = "ok",
                                    !.body = body]
              /\ IF JsonValidated THEN Validated(body)
                                  ELSE UNCHANGED validatorVars
              /\ LET errs == IF JsonValidated THEN firstError(jsonPasses(body))
                                              ELSE <<>>
                 IN  Dispatch(IF errs = <<>> THEN NoError
                              ELSE createValidationError(errs))
  /\ UNCHANGED formVars

formatXmlErrors(errs) ==
  [i \in 1..Len(errs) |-> [type |-> "xml", message |-> errs[i]]]

\* The XML reader and parser, then req.xml.validate(schema) when the body
\* has a schema.
xmlBodyHandler(ct) ==
  /\ \E outcome \in ReaderOutcomes :
       IF outcome # "ok" THEN readerFailed(ct, outcome)
       ELSE /\ req' = [req EXCEPT !.hasBody = TRUE, !.contentType = ct,
                                  !.bodyStream = "read", !.reader = "ok",
                                  !.body = [xml |-> "document"]]
            /\ UNCHANGED validatorVars
            /\ \E valid \in IF method.schema # "none" THEN BOOLEAN ELSE {TRUE} :
                 Dispatch(IF valid THEN NoError
                          ELSE createValidationError(
                                 formatXmlErrors(<<"invalid">>)))
  /\ UNCHANGED formVars

\* A validation that replaces req.body before it validates.
urlencodedBodyAfterReplacing(raw, valid) ==
  IF method.formParameters THEN sanitize(UrlencodedParameters, raw) ELSE raw

\* req.body after the url-encoded handler: the sanitized parameters once
\* they validated (`req.body = body`), the parsed body otherwise.
urlencodedBodyAfter(raw, valid) ==
  IF method.formParameters /\ valid
    THEN sanitize(UrlencodedParameters, raw) ELSE raw

\* The url-encoded reader, then sanitize and validate when the body declares
\* form parameters.
urlencodedBodyHandler(ct) ==
  /\ \E outcome \in ReaderOutcomes :
       IF outcome # "ok" THEN readerFailed(ct, outcome)
       ELSE \E qs \in QueryStrings(UrlencodedParameters) :
              LET raw == parseQuerystring(qs)
                  errs == IF method.formParameters
                            THEN validate(UrlencodedParameters,
                                          sanitize(UrlencodedParameters, raw))
                            ELSE <<>>
              IN  /\ req' = [req EXCEPT
                               !.hasBody = TRUE, !.contentType = ct,
                               !.bodyStream = "read", !.reader = "ok",
                               !.rawBody = raw,
                               !.body = urlencodedBodyAfter(raw, errs = <<>>)]
                  /\ Dispatch(IF errs = <<>> THEN NoError
                              ELSE createValidationError(
                                     formatRamlErrors(errs, "form")))
                  /\ UNCHANGED validatorVars
  /\ UNCHANGED formVars

\* type = is.is(ct, types); fn = bodyMap[type]; fn ? fn(req, res, next) : next()
ospreyContentType ==
  /\ Running("ospreyContentType")
  /\ \E hasBody \in BOOLEAN, ct \in ContentTypes :
       LET type == typeIs(ct, method.payloads)
           seen == [req EXCEPT !.hasBody = hasBody, !.contentType = ct]
       IN  IF ~hasBody \/ type = "none"
             THEN /\ Dispatch(createError(415))
                  /\ req' = seen
                  /\ UNCHANGED <<formVars, validatorVars>>
             ELSE IF type \notin bodyMap(method.payloads, options)
               THEN /\ Dispatch(NoError)
                    /\ req' = seen
                    /\ UNCHANGED <<formVars, validatorVars>>
               ELSE CASE type = "application/json" -> jsonBodyHandler(ct)
                      [] type = "text/xml" -> xmlBodyHandler(ct)
                      [] type = "application/x-www-form-urlencoded" ->
                           urlencodedBodyHandler(ct)
                      [] type = "multipart/form-data" ->
                           /\ ospreyMethodForm
                           /\ req' = seen
                           /\ UNCHANGED validatorVars
  /\ UNCHANGED <<registryVars, lazy, method, options, middleware,
                 thrown, draining, streamEvents>>

\* An Error a failing request stream hands to its listeners.
StreamError == createError(500)

\* A discardBody that resumes the stream and calls next() without waiting.
discardBodyEager ==
  /\ Running("discardBody")
  /\ ~draining
  /\ draining' = TRUE
  /\ req' = [req EXCEPT !.bodyStream = "flowing"]
  /\ Dispatch(NoError)
  /\ UNCHANGED <<engineVars, lazy, method, options, middleware,
                 thrown, streamEvents, formVars>>

discardBody ==
  /\ Running("discardBody")
  /\ ~draining
  /\ \E ended \in BOOLEAN :
       IF ended
         THEN /\ Dispatch(NoError)
              /\ req' = [req EXCEPT !.bodyStream = "ended"]
              /\ UNCHANGED draining
         ELSE /\ draining' = TRUE
              /\ req' = [req EXCEPT !.bodyStream = "flowing"]
              /\ UNCHANGED <<index, log, passed, failed, done, doneErr,
                             doneCalls>>
  /\ UNCHANGED <<engineVars, lazy, method, options, middleware,
                 thrown, streamEvents, formVars>>

\* A composition that lets a second event of the stream continue the chain.
StreamEventContinuing(event, err) ==
  /\ draining
  /\ event \notin streamEvents
  /\ streamEvents' = streamEvents \cup {event}
  /\ IF Running("discardBody")
       THEN Dispatch(err)
       ELSE /\ doneCalls' = doneCalls + 1
            /\ doneErr' = err
            /\ UNCHANGED <<index, log, passed, failed, done>>
  /\ req' = [req EXCEPT !.bodyStream = IF event = "end" THEN "ended"
                                       ELSE "errored"]
  /\ UNCHANGED <<engineVars, lazy, method, options, middleware,
                 draining, thrown, formVars>>

\* next or next(err) called by a listener discardBody registered with req.on.
StreamEvent(event, err) ==
  /\ draining
  /\ event \notin streamEvents
  /\ streamEvents' = streamEvents \cup {event}
  /\ IF Running("discardBody")
       THEN Dispatch(err) /\ UNCHANGED thrown
       ELSE /\ thrown' = thrown + 1
            /\ UNCHANGED <<index, log, passed, failed, done, doneErr,
                           doneCalls>>
  /\ req' = [req EXCEPT !.bodyStream = IF event = "end" THEN "ended"
                                       ELSE "errored"]
  /\ UNCHANGED <<engineVars, lazy, method, options, middleware,
                 draining, formVars>>

StreamEnd == StreamEvent("end", NoError)

StreamFail == StreamEvent("error", StreamError)

\* Accept headers a request may carry ("absent": no such header).
AcceptHeaders ==
  {"absent", "", "*/*", "application/json", "text/*",
   "application/json, text/html", "foo/bar"}

\* The media ranges of an Accept header; a request without one accepts */*.
AcceptRanges(accept) ==
  CASE accept = "absent" -> {"*/*"}
    [] accept = "" -> {}
    [] accept = "application/json, text/html" ->
         {"application/json", "text/html"}
    [] OTHER -> {accept}

\* negotiator.mediaType(mediaTypes): the available types some range of the
\* Accept header covers; none of them makes the result undefined.
negotiatorMediaType(accept, mediaTypes) ==
  {t \in mediaTypes : \E range \in AcceptRanges(accept) : t \in TypePattern(range)}

ospreyAccepts ==
  /\ Running("ospreyAccepts")
  /\ \E accept \in AcceptHeaders :
       /\ req' = [req EXCEPT !.accept = accept]
       /\ Dispatch(IF negotiatorMediaType(
                        accept, acceptedTypes(method.responses)) = {}
                     THEN createError(406) ELSE NoError)
  /\ UNCHANGED <<engineVars, lazy, method, options, middleware,
                 thrown, draining, streamEvents,
                 formVars>>

\* String(value) of a primitive, as querystring.stringify writes it.
stringifyPrimitive(value) ==
  CASE "str" \in DOMAIN value -> value.str
    [] "num" \in DOMAIN value ->
         (CHOOSE t \in DOMAIN NumericStrings : NumericStrings[t] = value.num)
    [] "bool" \in DOMAIN value -> IF value.bool THEN "true" ELSE "false"
    [] OTHER -> ""

RECURSIVE stringify(_, _)
\* querystring.stringify(query): the object's keys in their order, which
\* for a sanitized object is the order of the declarations.
stringify(params, query) ==
  IF params = <<>> THEN <<>>
  ELSE (IF Head(params).name \in DOMAIN query
          THEN <<<<Head(params).name,
                   stringifyPrimitive(query[Head(params).name])>>>>
          ELSE <<>>)
       \o stringify(Tail(params), query)

ospreyQuery ==
  /\ Running("ospreyQuery")
  /\ \E qs \in QueryStrings(method.queryParameters.params) :
       LET params == method.queryParameters.params
           query == sanitize(params, parseQuerystring(qs))
           errs == validate(params, query)
           seen == [req EXCEPT !.received = qs, !.url = qs]
       IN  IF errs # <<>>
             THEN /\ Dispatch(createValidationError(
                                formatRamlErrors(errs, "query")))
                  /\ req' = seen
             ELSE /\ Dispatch(NoError)
                  /\ req' =
                       IF options.discardUnknownQueryParameters
                         THEN [seen EXCEPT !.url = stringify(params, query),
                                           !.query = "declared",
                                           !.queryObject = query]
                         ELSE [seen EXCEPT !.query = "merged",
                                           !.queryObject = query]
  /\ UNCHANGED <<engineVars, lazy, method, options, middleware,
                 thrown, draining, streamEvents,
                 formVars>>

ospreyFastQuery ==
  /\ Running("ospreyFastQuery")
  /\ \E qs \in QueryStrings(<<>>) :
       req' = [req EXCEPT !.received = qs, !.url = <<>>, !.query = "empty",
                          !.queryObject = [n \in {} |-> Undefined]]
  /\ Dispatch(NoError)
  /\ UNCHANGED <<engineVars, lazy, method, options, middleware,
                 thrown, draining, streamEvents,
                 formVars>>

\* ------------------------------------------------------ the chain's runs
\* The variables ospreyMethodForm creates for a request, before any part.
NewSession ==
  [parts |-> <<>>, received |-> {}, errored |-> FALSE, errors |-> <<>>,
   forwarded |-> <<>>, drained |-> {}, busboyDone |-> FALSE,
   finishCalls |-> 0]

NoSession ==
  /\ session = "none"
  /\ parts = <<>>
  /\ received = {}
  /\ errored = FALSE
  /\ errors = <<>>
  /\ forwarded = <<>>
  /\ drained = {}
  /\ busboyDone = FALSE
  /\ finishCalls = 0
  /\ peer = NewSession

\* Operations whose requests the chain is run for: the required form
\* parameters matter to the form session only.
ChainMethods == {m \in Methods : m.required \subseteq {"number"}}

\* The operations and options the chain is constructed from. Declared headers
\* and the discardUnknownHeaders option are varied on the operations that
\* declare neither a body nor responses: no later stage reads req.headers.
\* Body schemas are varied on the operations without responses and query
\* parameters: the stages after the body stage do not read the body. The
\* draft of a schema, its $ref and the engine are varied where the handler
\* is constructed after addJsonSchema calls.
ChainConfigurations ==
  {c \in [method : ChainMethods, options : Options] :
     /\ c.method.payloads # {} \/ c.method.responses.present
          => c.method.headers = <<>> /\ c.options.discardUnknownHeaders
     /\ (c.method.schema # "none" \/ c.method.type.present
           \/ c.method.formParameters)
          => ~c.method.responses.present /\ ~c.method.queryParameters.present
     /\ c.method.draft = "04"
     /\ c.method.ref = "none"
     /\ c.options.ajv = "default"}

\* No schema was added to either engine, no request validated.
NoEngineCalls ==
  /\ ajvSchemas = {}
  /\ customSchemas = {}
  /\ calls = {}
  /\ validateErrors = <<>>
  /\ reports = <<>>

Init ==
  /\ NoEngineCalls
  /\ lazy = {}
  /\ \E c \in ChainConfigurations : method = c.method /\ options = c.options
  /\ middleware = ospreyMethodHandler(method, options)
  /\ built = Built(method, options, calls)
  /\ index = 0
  /\ log = <<>>
  /\ passed = {}
  /\ failed = {}
  /\ done = "pending"
  /\ doneErr = NoError
  /\ doneCalls = 0
  /\ thrown = 0
  /\ req = Req0
  /\ draining = FALSE
  /\ streamEvents = {}
  /\ NoSession

Next ==
  \/ Request
  \/ resourcePathAttacher
  \/ ospreyMethodHeader
  \/ ospreyContentType
  \/ discardBody
  \/ StreamEnd
  \/ StreamFail
  \/ ospreyAccepts
  \/ ospreyQuery
  \/ ospreyFastQuery

Spec == Init /\ [][Next]_vars

\* ------------------------------------------------- multipart: the session
\* Object.prototype.hasOwnProperty.call(params, name)
hasOwnProperty(ps, name) == name \in DOMAIN ps

\* received[name] read on `const received = {}`: an own key set to true, or
\* a property inherited from Object.prototype.
receivedLookup(rcv, name) == name \in rcv \/ name \in ObjectPrototypeKeys

NeverRepeated(rcv, ps, name) == FALSE

\* received[name] && !params[name].repeat
isRepeat(rcv, ps, name) == receivedLookup(rcv, name) /\ ~ps[name].repeat

repeatError(name, value) ==
  [valid |-> FALSE, rule |-> "repeat", value |-> value, key |-> name,
   attr |-> "false"]

\* An error record that is a list: every error is added to it.
pushError(errs, name, e) == Append(errs, e)

\* errors[name] = e: a new key goes last, a key already set keeps its place.
setError(errs, name, e) ==
  IF \E i \in 1..Len(errs) : errs[i].key = name
    THEN [i \in 1..Len(errs) |-> IF errs[i].key = name THEN e ELSE errs[i]]
    ELSE Append(errs, e)

KeepErrored(was, result) == was

\* if (!result.valid) { errored = true; ... }
setErrored(was, result) == was \/ ~result.valid

CloseWithoutResume(S, ev, id) == S

\* close(): a file's stream is resumed, a field needs nothing.
close(S, ev, id) ==
  IF ev.type = "field" THEN S ELSE [S EXCEPT !.drained = @ \cup {id}]

\* Busboy.prototype.emit for an event that reaches the listeners.
busboyEmit(S, ev) == [S EXCEPT !.forwarded = Append(@, ev)]

\* The overriding emit for a 'field' or 'file' event, part number id.
emitPart(S, ps, ev, id) ==
  IF ~hasOwnProperty(ps, ev.name)
    THEN close(S, ev, id)
    ELSE LET value == sanitizers(ps[ev.name], ev.value)
             sev == [ev EXCEPT !.value = value]
         IN  IF isRepeat(S.received, ps, ev.name)
               THEN close([S EXCEPT
                             !.errors = setError(@, ev.name,
                                                 repeatError(ev.name, value)),
                             !.errored = TRUE],
                          sev, id)
               ELSE LET result == validators(ps[ev.name], value, ev.name)
                        S1 == [S EXCEPT
                                 !.received = @ \cup {ev.name},
                                 !.errored = setErrored(@, result),
                                 !.errors = IF result.valid THEN @
                                            ELSE setError(@, ev.name, result)]
                    IN  IF S1.errored
                          THEN close(S1, sev, id)
                          ELSE busboyEmit(S1, sev)

RECURSIVE requiredErrors(_, _, _)
\* Object.keys(params).filter(required && !received[key]).map(...)
requiredErrors(keys, ps, rcv) ==
  IF keys = <<>> THEN <<>>
  ELSE (IF ps[Head(keys)].required /\ ~receivedLookup(rcv, Head(keys))
          THEN <<requiredError(Head(keys))>> ELSE <<>>)
       \o requiredErrors(Tail(keys), ps, rcv)

RecordedThenRequired(ps, rcv, errs) ==
  errs \o requiredErrors(ParamKeys, ps, rcv)

\* The list built at end-of-stream: required errors, then values(errors).
validationErrors(ps, rcv, errs) ==
  requiredErrors(ParamKeys, ps, rcv) \o errs

FinishEvent == [type |-> "finish", name |-> "", value |-> Undefined]

ErrorEvent(err) == [type |-> "error", name |-> "", value |-> err]

\* An emit that swallows the end-of-stream of a session with errors.
emitFinishSilent(S, ps) ==
  IF Len(validationErrors(ps, S.received, S.errors)) > 0
    THEN S ELSE busboyEmit(S, FinishEvent)

\* The overriding emit for the 'finish' event once busboy is done.
emitFinish(S, ps) ==
  LET list == validationErrors(ps, S.received, S.errors)
  IN  IF Len(list) > 0
        THEN busboyEmit(S, ErrorEvent(
               createValidationError(formatRamlErrors(list, "form"))))
        ELSE busboyEmit(S, FinishEvent)

\* ------------------------------------------------ multipart: the events
Params == FormParameters(method.required)

Session ==
  [received |-> received, errored |-> errored, errors |-> errors,
   forwarded |-> forwarded, drained |-> drained]

SetSession(S) ==
  /\ received' = S.received
  /\ errored' = S.errored
  /\ errors' = S.errors
  /\ forwarded' = S.forwarded
  /\ drained' = S.drained

\* Field parts a request may carry: a name and its raw text.
FieldInputs ==
  {<<"number", "12345">>, <<"number", "abc">>, <<"items", "true">>,
   <<"items", "abc">>, <<"contents", "abc">>, <<"constructor", "abc">>,
   <<"random", "abc">>}

\* Names under which a request may carry a file part.
FileInputs == {"contents", "random"}

FieldEvents ==
  {[type |-> "field", name |-> in[1], value |-> Str(in[2])] : in \in FieldInputs}

FileEvents(id) ==
  {[type |-> "file", name |-> n, value |-> Stream(id)] : n \in FileInputs}

\* busboy.emit(type, name, value) for a part; without formParameters emit is
\* not overridden and every part reaches the listeners.
Emit(ev) ==
  /\ parts' = Append(parts, ev)
  /\ IF method.formParameters
       THEN SetSession(emitPart(Session, Params, ev, Len(parts) + 1))
       ELSE SetSession(busboyEmit(Session, ev))
  /\ UNCHANGED <<chainVars, session, busboyDone, finishCalls, peer>>

\* The application handler has piped the request into req.form.
Streaming ==
  /\ session = "open"
  /\ done = "handler"
  /\ finishCalls = 0
  /\ Len(parts) < MaxParts

EmitField == Streaming /\ \E ev \in FieldEvents : Emit(ev)

EmitFile == Streaming /\ \E ev \in FileEvents(Len(parts) + 1) : Emit(ev)

\* busboy emits 'finish' twice: before _done it only ends the parser, which
\* sets _done and emits 'finish' again.
EmitFinish ==
  /\ session = "open"
  /\ done = "handler"
  /\ finishCalls < 2
  /\ finishCalls' = finishCalls + 1
  /\ IF ~busboyDone
       THEN /\ busboyDone' = TRUE
            /\ UNCHANGED <<received, errored, errors, forwarded, drained>>
       ELSE /\ UNCHANGED busboyDone
            /\ IF method.formParameters
                 THEN SetSession(emitFinish(Session, Params))
                 ELSE SetSession(busboyEmit(Session, FinishEvent))
  /\ UNCHANGED <<chainVars, session, parts, peer>>

\* A multipart request of an operation that declares only a multipart body,
\* under the default options, after the chain has reached the handler.
FormMethods ==
  {m \in Methods : /\ m.headers = <<>>
                   /\ m.schema = "none"
                   /\ ~m.type.present
                   /\ m.draft = "04"
                   /\ m.payloads = {"multipart/form-data"}
                   /\ ~m.responses.present
                   /\ ~m.queryParameters.present}

FormInit ==
  /\ NoEngineCalls
  /\ lazy = {"header"}
  /\ method \in FormMethods
  /\ options = DEFAULT_OPTIONS
  /\ middleware = ospreyMethodHandler(method, options)
  /\ built = Built(method, options, calls)
  /\ index = Len(middleware) + 1
  /\ log = middleware
  /\ passed = {middleware[i] : i \in 1..Len(middleware)}
  /\ failed = {}
  /\ done = "handler"
  /\ doneErr = NoError
  /\ doneCalls = 1
  /\ thrown = 0
  /\ req = [Req0 EXCEPT !.resourcePath = "path",
                        !.hasBody = TRUE,
                        !.contentType = "multipart/form-data",
                        !.query = "empty"]
  /\ draining = FALSE
  /\ streamEvents = {}
  /\ session = "open"
  /\ parts = <<>>
  /\ received = {}
  /\ errored = FALSE
  /\ errors = <<>>
  /\ forwarded = <<>>
  /\ drained = {}
  /\ busboyDone = FALSE
  /\ finishCalls = 0
  /\ peer = NewSession

FormNext ==
  \/ EmitField
  \/ EmitFile
  \/ EmitFinish

FormSpec == FormInit /\ [][FormNext]_vars

\* busboy emits 'finish' for every request whose stream ends: the parser
\* delivers the end-of-stream of a request that is piped into it.
FormLiveInit ==
  /\ FormInit
  /\ method.required \in {{}, {"number"}, {"items", "contents"}}

FormLiveSpec == FormLiveInit /\ [][FormNext]_vars /\ WF_vars(EmitFinish)

\* ------------------------------------- the chain and the multipart session
\* Parts the handler of a request pipes into req.form.
MaxChainParts == 1

\* Operations with a validated multipart body, with or without responses
\* and query parameters.
FormChainMethods ==
  {m \in Methods : /\ m.headers = <<>>
                   /\ m.payloads = {"multipart/form-data"}
                   /\ m.formParameters
                   /\ m.required \in {{}, {"number"}}
                   /\ m.draft = "04"
                   /\ m.responses.types
                        \in {{}, {<<200, "application/json">>,
                                  <<404, "text/html">>}}
                   /\ Len(m.queryParameters.params) # 1}

FormChainInit ==
  /\ NoEngineCalls
  /\ lazy = {}
  /\ method \in FormChainMethods
  /\ options = DEFAULT_OPTIONS
  /\ middleware = ospreyMethodHandler(method, options)
  /\ built = Built(method, options, calls)
  /\ index = 0
  /\ log = <<>>
  /\ passed = {}
  /\ failed = {}
  /\ done = "pending"
  /\ doneErr = NoError
  /\ doneCalls = 0
  /\ thrown = 0
  /\ req = Req0
  /\ draining = FALSE
  /\ streamEvents = {}
  /\ NoSession

\* The application handler pipes the request into req.form: busboy emits
\* the parts, then 'finish'.
PipedField == Len(parts) < MaxChainParts /\ EmitField

PipedFile == Len(parts) < MaxChainParts /\ EmitFile

FormChainNext ==
  \/ Request
  \/ resourcePathAttacher
  \/ ospreyMethodHeader
  \/ ospreyContentType
  \/ ospreyAccepts
  \/ ospreyQuery
  \/ ospreyFastQuery
  \/ PipedField
  \/ PipedFile
  \/ EmitFinish

FormChainSpec == FormChainInit /\ [][FormChainNext]_vars

\* --------------------------------------- multipart: two requests in flight
\* A second request to the same operation: ospreyMethodForm ran for it too,
\* and the parser emits its parts between those of the first request.
PeerSessionHoisted ==
  [received |-> received, errored |-> errored, errors |-> errors,
   forwarded |-> peer.forwarded, drained |-> peer.drained]

\* received, errored and errors are created by each call of
\* ospreyMethodForm: the second request's emit closes over its own.
PeerSession ==
  [received |-> peer.received, errored |-> peer.errored,
   errors |-> peer.errors, forwarded |-> peer.forwarded,
   drained |-> peer.drained]

SetPeer(S, p) ==
  peer' = [p EXCEPT !.received = S.received, !.errored = S.errored,
                    !.errors = S.errors, !.forwarded = S.forwarded,
                    !.drained = S.drained]

\* Parts either of the two requests may carry.
PairFieldInputs ==
  {<<"number", "12345">>, <<"number", "abc">>, <<"items", "abc">>,
   <<"random", "abc">>}

PairEvents(id) ==
  {[type |-> "field", name |-> in[1], value |-> Str(in[2])] :
     in \in PairFieldInputs}
  \cup {[type |-> "file", name |-> "contents", value |-> Stream(id)]}

OwnPart ==
  /\ session = "open"
  /\ finishCalls = 0
  /\ Len(parts) < MaxPairParts
  /\ \E ev \in PairEvents(Len(parts) + 1) : Emit(ev)

OwnFinish == EmitFinish

PeerPart ==
  /\ peer.finishCalls = 0
  /\ Len(peer.parts) < MaxPairParts
  /\ \E ev \in PairEvents(Len(peer.parts) + 1) :
       SetPeer(IF method.formParameters
                 THEN emitPart(PeerSession, Params, ev, Len(peer.parts) + 1)
                 ELSE busboyEmit(PeerSession, ev),
               [peer EXCEPT !.parts = Append(@, ev)])
  /\ UNCHANGED <<chainVars, session, parts, received, errored, errors,
                 forwarded, drained, busboyDone, finishCalls>>

PeerFinish ==
  /\ peer.finishCalls < 2
  /\ IF ~peer.busboyDone
       THEN peer' = [peer EXCEPT !.finishCalls = @ + 1, !.busboyDone = TRUE]
       ELSE SetPeer(IF method.formParameters
                      THEN emitFinish(PeerSession, Params)
                      ELSE busboyEmit(PeerSession, FinishEvent),
                    [peer EXCEPT !.finishCalls = @ + 1])
  /\ UNCHANGED <<chainVars, session, parts, received, errored, errors,
                 forwarded, drained, busboyDone, finishCalls>>

PairMethods ==
  {m \in FormMethods : m.required \in {{}, {"number"}, {"items", "contents"}}}

PairInit ==
  /\ FormInit
  /\ method \in PairMethods

PairNext ==
  \/ OwnPart
  \/ OwnFinish
  \/ PeerPart
  \/ PeerFinish

PairSpec == PairInit /\ [][PairNext]_vars

\* ------------------------------------- addJsonSchema and the construction
\* Keys external schemas are added under.
SchemaKeys == {"product", "other"}

\* addJsonSchema(schema, key, options): ajv.addSchema on the instance passed
\* as options.ajv, else on the module's own; addSchema throws for a key the
\* instance already holds.
addJsonSchema ==
  /\ \E key \in SchemaKeys, override \in BOOLEAN :
       /\ calls' = calls \cup {<<key, override>>}
       /\ IF override
            THEN /\ key \notin customSchemas
                 /\ customSchemas' = customSchemas \cup {key}
                 /\ UNCHANGED ajvSchemas
            ELSE /\ key \notin ajvSchemas
                 /\ ajvSchemas' = ajvSchemas \cup {key}
                 /\ UNCHANGED customSchemas
  /\ UNCHANGED <<method, options, middleware, index, log, passed, failed,
                 done, doneErr, doneCalls, thrown, req, draining,
                 streamEvents, lazy, built, validatorVars, formVars>>

\* headers.map(header => header.withName(header.name.value().toLowerCase())):
\* the setter writes the lower-cased name into the operation's parameter.
withLowerCaseNames(headers) ==
  [i \in 1..Len(headers) |-> [headers[i] EXCEPT !.name = toLowerCase(@)]]

\* The application calls ospreyMethodHandler(method, path, options).
Construct ==
  /\ built.state = "no"
  /\ built' = Built(method, options, calls)
  /\ middleware' = ospreyMethodHandler(method, options)
  /\ method' = IF method.defined
                 THEN [method EXCEPT !.headers = withLowerCaseNames(@)]
                 ELSE method
  /\ UNCHANGED <<options, index, log, passed, failed, done, doneErr,
                 doneCalls, thrown, req, draining, streamEvents, lazy,
                 ajvSchemas, customSchemas, calls, validatorVars, formVars>>

\* Operations with a JSON schema, and the options that choose the engine.
RegistryMethods ==
  {m \in Methods : /\ Len(m.headers) <= 1
                   /\ m.payloads \in {{"application/json"}, {"*/*"}}
                   /\ m.schema # "none"
                   /\ ~m.formParameters
                   /\ ~m.responses.present
                   /\ ~m.queryParameters.present}

RegistryOptions ==
  {o \in Options : /\ o.discardUnknownBodies
                   /\ o.discardUnknownQueryParameters
                   /\ o.discardUnknownHeaders}

RegistryInit ==
  /\ NoEngineCalls
  /\ lazy = {}
  /\ method \in RegistryMethods \cup {NoMethod}
  /\ options \in RegistryOptions
  /\ middleware = <<>>
  /\ built = NotBuilt
  /\ index = 0
  /\ log = <<>>
  /\ passed = {}
  /\ failed = {}
  /\ done = "pending"
  /\ doneErr = NoError
  /\ doneCalls = 0
  /\ thrown = 0
  /\ req = Req0
  /\ draining = FALSE
  /\ streamEvents = {}
  /\ NoSession

RegistryNext ==
  \/ addJsonSchema
  \/ Construct

RegistrySpec == RegistryInit /\ [][RegistryNext]_vars

\* --------------------------------------- one validator, several requests
\* Requests one compiled validator is followed through.
MaxValidations == 3

\* ospreyJsonBody of one request after another: validate(req.body) and the
\* read of its errors happen in one turn of the event loop, so the requests
\* of a server reach the validator in some order, one at a time.
ospreyJsonBody ==
  /\ Len(reports) < MaxValidations
  /\ \E body \in JsonBodies : Validated(body)
  /\ UNCHANGED <<registryVars, lazy, method, options, middleware, index, log,
                 passed, failed, done, doneErr, doneCalls, thrown, req,
                 draining, streamEvents, formVars>>

\* The handler of an operation whose JSON body has a schema or a RAML type.
ValidatorInit ==
  /\ Init
  /\ method.payloads = {"application/json"}
  /\ JsonValidated
  /\ built.state = "ok"
  /\ options = DEFAULT_OPTIONS

ValidatorNext == ospreyJsonBody

ValidatorSpec == ValidatorInit /\ [][ValidatorNext]_vars

\* --------------------------------------------------- claims on the chain
\* Position of a stage in the declared order: resource-path tagging, header
\* validation, body dispatch or discard, Accept negotiation, query.
Rank(stage) ==
  CASE stage = "resourcePathAttacher" -> 1
    [] stage = "ospreyMethodHeader" -> 2
    [] stage \in {"ospreyContentType", "discardBody"} -> 3
    [] stage = "ospreyAccepts" -> 4
    [] stage \in {"ospreyQuery", "ospreyFastQuery"} -> 5

\* C1: the stages of a request start in the declared order (resource path,
\* headers, body dispatch or discard, Accept, query); a stage starts only
\* after every stage started before it has called next(); req.resourcePath
\* is set whenever a stage after the tagging stage has started; and a
\* request that reaches the handler has run every stage that was built.
C1_StagesRunInDeclaredOrder ==
  /\ \A i \in 1..Len(log) : \A j \in 1..Len(log) :
       i < j => Rank(log[i]) < Rank(log[j])
  /\ \A i \in 1..Len(log) : i < Len(log) => log[i] \in passed
  /\ \A i \in 1..Len(log) : Rank(log[i]) >= 2 => req.resourcePath = "path"
  /\ done = "handler" => log = middleware

\* A request that ran all five stages and reached the handler.
C1_Witness ==
  /\ done = "handler"
  /\ Len(log) = 5
  /\ req.resourcePath = "path"

\* C2: once a stage has called next(err), the chain has ended with that
\* error, the failing stage is the last one that was started, and the
\* handler is not invoked; the handler is invoked only after every stage of
\* the chain has called next() without an error.
C2_ErrorShortCircuits ==
  /\ failed # {} =>
       /\ done = "error"
       /\ doneErr # NoError
       /\ failed = {log[Len(log)]}
  /\ done = "handler" =>
       /\ failed = {}
       /\ \A i \in 1..Len(middleware) : middleware[i] \in passed

\* A stage in the middle of the chain failed: the later stages never started.
C2_Witness ==
  /\ done = "error"
  /\ failed # {}
  /\ Len(log) < Len(middleware)
  /\ Len(log) >= 2

\* ------------------------------------------------ claims on the body stage
\* The body stage has run for the request.
BodyStageRan == "ospreyContentType" \in passed \cup failed

Rejected415 == "ospreyContentType" \in failed /\ doneErr.status = 415

\* The request's Content-Type is one of the declared types, or a declared
\* wildcard covers it.
DeclaredTypeMatches ==
  /\ req.contentType # "none"
  /\ \/ req.contentType \in method.payloads
     \/ "*/*" \in method.payloads
     \/ /\ "text/*" \in method.payloads
        /\ req.contentType \in {"text/xml", "text/html", "text/plain"}
     \/ /\ "application/*" \in method.payloads
        /\ req.contentType \in {"application/json",
                                "application/x-www-form-urlencoded"}

\* C12: for an operation that declares a body, the body stage ends with
\* status 415 exactly when the request carries no body or its Content-Type
\* matches none of the declared types, wildcards included; a rejected
\* request has had no body read or parsed, has no form session, and ends
\* the chain in error without reaching the handler.
C12_UnsupportedMediaType ==
  BodyStageRan =>
    /\ method.payloads # {}
    /\ Rejected415 <=> (~req.hasBody \/ ~DeclaredTypeMatches)
    /\ Rejected415 =>
         /\ req.bodyStream = "unread"
         /\ req.body = Undefined
         /\ session = "none"
         /\ done = "error"
         /\ doneCalls = 1

\* A body of a type the declared wildcard does not cover was rejected.
C12_Witness ==
  /\ Rejected415
  /\ method.payloads = {"text/*"}
  /\ req.hasBody
  /\ req.contentType = "application/json"

\* The request's body matched a declared type that has no handler attached.
PassedThrough ==
  /\ BodyStageRan
  /\ req.hasBody
  /\ DeclaredTypeMatches
  /\ req.contentType \notin bodyMap(method.payloads, options)

\* C13: when the Content-Type matches a declared type for which no body
\* handler is installed, the body stage calls next() without an error and
\* without reading or parsing the body: the stream is still unread when the
\* handler is reached. Declared text/html, and */* unless
\* parseBodiesOnWildcard is set, are such types.
C13_UnhandledTypePassesThrough ==
  /\ PassedThrough =>
       /\ "ospreyContentType" \in passed
       /\ req.bodyStream = "unread"
       /\ req.body = Undefined
       /\ session = "none"
  /\ (/\ BodyStageRan
      /\ req.hasBody
      /\ \/ method.payloads = {"text/html"} /\ req.contentType = "text/html"
         \/ /\ method.payloads = {"*/*"}
            /\ ~options.parseBodiesOnWildcard
            /\ req.contentType # "none")
       => PassedThrough

\* A JSON body sent to an operation declaring */* under the default options
\* reached the handler unread.
C13_Witness ==
  /\ done = "handler"
  /\ method.payloads = {"*/*"}
  /\ ~options.parseBodiesOnWildcard
  /\ req.hasBody
  /\ req.contentType = "application/json"
  /\ req.bodyStream = "unread"
  /\ req.body = Undefined

\* A stage after the body stage has started, or the handler was reached.
AfterBodyStage ==
  \/ done = "handler"
  \/ \E i \in 1..Len(log) : Rank(log[i]) > 3

\* C14: for an operation with no declared body, when discardUnknownBodies is
\* set the discard stage is installed and whatever follows it starts only
\* after the request stream has ended (at once when it had ended already,
\* otherwise after the resumed stream's end event); when it is not set, no
\* body stage is installed and the stream stays unread.
C14_UndeclaredBodyDiscarded ==
  method.payloads = {} =>
    IF options.discardUnknownBodies
      THEN /\ middleware[3] = "discardBody"
           /\ AfterBodyStage =>
                /\ "discardBody" \in passed
                /\ IF draining THEN "end" \in streamEvents
                   ELSE req.bodyStream = "ended"
      ELSE /\ \A i \in 1..Len(middleware) : Rank(middleware[i]) # 3
           /\ req.bodyStream = "unread"
           /\ ~draining

\* The stream was resumed, ended, and the stages after the discard ran up
\* to the handler.
C14_Witness ==
  /\ method.payloads = {}
  /\ options.discardUnknownBodies
  /\ draining
  /\ streamEvents = {"end"}
  /\ done = "handler"
  /\ Len(log) >= 4

\* -------------------------------------------- claims on the Accept stage
\* Media types declared on the operation's 2xx responses.
Types2xx ==
  {t \in {"application/json", "text/html"} :
     \E code \in 200..299 : <<code, t>> \in method.responses.types}

\* Some declared 2xx type lies within a range of the request's Accept header.
AcceptCompatible ==
  \E t \in Types2xx :
    \/ req.accept \in {"absent", "*/*"}
    \/ req.accept = t
    \/ req.accept = "application/json, text/html"
    \/ req.accept = "text/*" /\ t = "text/html"

Rejected406 == done = "error" /\ doneErr.status = 406

\* C15: a request is rejected with status 406 exactly when some 2xx response
\* declares a media type and the Accept header is compatible with none of
\* the types declared on 2xx responses. When no 2xx response declares a
\* type there is no Accept stage, whatever the other responses declare, and
\* no request is rejected with 406.
C15_NotAcceptable ==
  /\ Types2xx = {} =>
       /\ \A i \in 1..Len(middleware) : middleware[i] # "ospreyAccepts"
       /\ ~Rejected406
  /\ Types2xx # {} =>
       /\ \E i \in 1..Len(middleware) : middleware[i] = "ospreyAccepts"
       /\ "ospreyAccepts" \in passed \cup failed =>
            /\ Rejected406 <=> ~AcceptCompatible
            /\ Rejected406 <=> "ospreyAccepts" \in failed
  /\ Rejected406 => "ospreyAccepts" \in failed

\* Accept: application/json was rejected: a 300 response declares that
\* type, but the only type of a 2xx response is text/html.
C15_Witness ==
  /\ Rejected406
  /\ method.responses.types =
       {<<299, "text/html">>, <<300, "application/json">>}
  /\ req.accept = "application/json"

\* --------------------------------------------- claims on the query stage
QueryStagePassed ==
  "ospreyQuery" \in passed \/ "ospreyFastQuery" \in passed

\* Names of the parameters in a query string.
Names(qs) == {qs[i][1] : i \in 1..Len(qs)}

\* The raw text the request gave a parameter.
RawOf(qs, name) == (CHOOSE p \in {qs[i] : i \in 1..Len(qs)} : p[1] = name)[2]

DeclaredQueryNames == DeclaredNames(method.queryParameters.params)

\* C16: after a successful query stage with discardUnknownQueryParameters
\* set, req.query holds exactly the declared parameters the request
\* carried, each with a value of its declared type that reads as the raw
\* text, and req.url's query string names exactly those parameters, once
\* each, with those values (none at all when no parameter is declared);
\* with the option unset req.url is as received. A failed query stage
\* reports declared parameters only.
C16_QueryFilteredAndRebuilt ==
  /\ QueryStagePassed =>
       IF options.discardUnknownQueryParameters
         THEN /\ DOMAIN req.queryObject
                   = DeclaredQueryNames \cap Names(req.received)
              /\ \A n \in DOMAIN req.queryObject :
                   /\ TypeOk(Declaration(method.queryParameters.params,
                                         n).type, req.queryObject[n])
                   /\ stringifyPrimitive(req.queryObject[n])
                        = RawOf(req.received, n)
              /\ Names(req.url) = DOMAIN req.queryObject
              /\ Len(req.url) = Cardinality(DOMAIN req.queryObject)
              /\ \A i \in 1..Len(req.url) :
                   req.url[i][2] = RawOf(req.received, req.url[i][1])
              /\ ~method.queryParameters.present =>
                   /\ DOMAIN req.queryObject = {}
                   /\ req.url = <<>>
         ELSE req.url = req.received
  /\ "ospreyQuery" \in failed =>
       \A i \in 1..Len(doneErr.requestErrors) :
         doneErr.requestErrors[i].dataPath \in DeclaredQueryNames

\* ?c=value&a=true&b=12345 reached the handler as {b: 12345, a: true} with
\* the url rebuilt in declaration order.
C16_Witness ==
  /\ done = "handler"
  /\ options.discardUnknownQueryParameters
  /\ req.received = <<<<"c", "value">>, <<"a", "true">>, <<"b", "12345">>>>
  /\ req.url = <<<<"b", "12345">>, <<"a", "true">>>>
  /\ req.queryObject = [n \in {"a", "b"} |->
                          IF n = "a" THEN Bool(TRUE) ELSE Num(12345)]

\* ----------------------------------------------- claims on parameter errors
\* The parameters a stage validated, as <<name, type>> in declaration order
\* (header names lower-cased), and the raw text the request gave them.
HeaderStageRan == req.rawHeaders # <<>>

QueryStageRan == "ospreyQuery" \in passed \cup failed

\* The entries of the signalled error list that name a parameter.
EntriesFor(name) ==
  {i \in 1..Len(doneErr.requestErrors) :
     LET e == doneErr.requestErrors[i]
     IN  \/ "dataPath" \in DOMAIN e /\ e.dataPath = name
         \/ "targetProperty" \in DOMAIN e /\ e.targetProperty = name}

\* The stage signalled a 400 validation error with exactly one entry for the
\* parameter: keyword `type`, the raw text as data.
OneTypeEntry(name, raw) ==
  /\ done = "error"
  /\ doneErr.status = 400
  /\ doneErr.ramlValidation
  /\ \E i \in EntriesFor(name) :
       /\ EntriesFor(name) = {i}
       /\ doneErr.requestErrors[i].keyword = "type"
       /\ "data" \in DOMAIN doneErr.requestErrors[i]
       /\ doneErr.requestErrors[i].data = Str(raw)

\* raw is text an integer parameter accepts.
Numeric(raw) == raw \in DOMAIN NumericStrings

\* C17: when the header stage (resp. the query stage) has handled a request
\* that gives a declared integer header (resp. query parameter) a raw value
\* that is not numeric, the stage has signalled a 400 validation error whose
\* list holds exactly one entry for that parameter, with keyword `type`, a
\* path naming it (in lower case for a header) and the raw text as data, and
\* the list holds no entry for a sibling parameter whose value is valid.
C17_InvalidIntegerReportedOnce ==
  /\ HeaderStageRan =>
       \A i \in 1..Len(method.headers) :
         LET name == toLowerCase(method.headers[i].name)
         IN  (/\ method.headers[i].type = "integer"
              /\ name \in Names(req.rawHeaders)
              /\ ~Numeric(RawOf(req.rawHeaders, name)))
               => /\ OneTypeEntry(name, RawOf(req.rawHeaders, name))
                  /\ \A j \in 1..Len(method.headers) :
                       LET sibling == toLowerCase(method.headers[j].name)
                       IN  (/\ sibling \in Names(req.rawHeaders)
                            /\ validateHeader(method.headers[j].type, sibling,
                                 RawOf(req.rawHeaders, sibling)).conforms)
                             => EntriesFor(sibling) = {}
  /\ QueryStageRan =>
       \A i \in 1..Len(method.queryParameters.params) :
         LET d == method.queryParameters.params[i]
         IN  (/\ d.type = "integer"
              /\ d.name \in Names(req.received)
              /\ ~Numeric(RawOf(req.received, d.name)))
               => /\ OneTypeEntry(d.name, RawOf(req.received, d.name))
                  /\ \A j \in 1..Len(method.queryParameters.params) :
                       LET s == method.queryParameters.params[j]
                       IN  (/\ s.name \in Names(req.received)
                            /\ validators(s, sanitizers(s,
                                 Str(RawOf(req.received, s.name))),
                                 s.name).valid)
                             => EntriesFor(s.name) = {}

\* The query half of C17 alone, which the query stage satisfies.
C17_QueryHalf ==
  QueryStageRan =>
    \A i \in 1..Len(method.queryParameters.params) :
      LET d == method.queryParameters.params[i]
      IN  (/\ d.type = "integer"
           /\ d.name \in Names(req.received)
           /\ ~Numeric(RawOf(req.received, d.name)))
            => OneTypeEntry(d.name, RawOf(req.received, d.name))

\* ------------------------------------------------- claims on req.headers
\* The names the operation declares (lower-cased) or the standard ones.
KnownHeader(name) == name \in DOMAIN schemas(method.headers)

\* req.headers as the claim describes it: under discardUnknownHeaders the
\* declared and standard headers of the request, all of them, and nothing
\* else; without it every header of the request.
HeadersAsConfigured ==
  IF options.discardUnknownHeaders
    THEN /\ \A i \in 1..Len(req.headers) : KnownHeader(req.headers[i][1])
         /\ req.headers
              = SelectSeq(req.rawHeaders, LAMBDA h : KnownHeader(h[1]))
    ELSE req.headers = req.rawHeaders

C18_AfterPassedStage ==
  "ospreyMethodHeader" \in passed => HeadersAsConfigured

\* The value the handler reads from req.headers: the stage stores a header
\* as the string it arrived as.
HeaderValue(header) == Str(header[2])

\* C19: after a successful header stage, every declared header of the
\* request is in req.headers with its sanitized value: the value of the
\* declared type that the raw string converts to (a number for an integer
\* header), not the raw string.
C19_HeadersSanitized ==
  "ospreyMethodHeader" \in passed =>
    \A i \in 1..Len(method.headers) :
      LET d == method.headers[i]
          name == toLowerCase(d.name)
      IN  name \in Names(req.rawHeaders) =>
            \E k \in 1..Len(req.headers) :
              /\ req.headers[k][1] = name
              /\ HeaderValue(req.headers[k])
                   = sanitizers(d, Str(RawOf(req.rawHeaders, name)))

\* ---------------------------------------------------- claims on construction
\* Construction threw with a message naming the method and the path; no
\* middleware was returned and no request is processed.
ConstructionThrew ==
  LET message == constructionError(method, options).message
  IN  /\ Len(message) = 5
      /\ message[1] = "Unable to compile"
      /\ message[4] = "GET"
      /\ message[5] = "path"
      /\ middleware = <<>>
      /\ index = 0
      /\ log = <<>>
      /\ done = "pending"
      /\ req = Req0

\* C20: a body schema that cannot be compiled makes the construction of the
\* handler throw with a message naming the method and the path; no
\* middleware is returned and no request is ever processed.
C20_MalformedSchemaThrows ==
  method.schema = "malformed" => ConstructionThrew

\* C20, amended: the same for a schema of a body whose JSON or XML handler is
\* installed; the schema of any other body is never compiled, the middleware
\* is returned and requests are processed.
C20_CompiledMalformedSchemaThrows ==
  /\ (method.schema = "malformed" /\ compiling(method, options) # {})
       => ConstructionThrew
  /\ (method.schema = "malformed" /\ compiling(method, options) = {})
       => middleware # <<>>

\* An application/json body with a malformed schema: nothing was returned.
C20_Witness ==
  /\ method.schema = "malformed"
  /\ method.payloads = {"application/json"}
  /\ options = DEFAULT_OPTIONS
  /\ constructionError(method, options).message[2] = "JSON"
  /\ middleware = <<>>


\* ------------------------------------------------ claims on the body map
\* The built-in handlers a declared media type matches.
Matching(t) == BODY_HANDLERS \cap TypePattern(t)

\* The request's body was handed to a built-in handler of the body stage.
HandledByBodyHandler == req.bodyStream = "read" \/ session = "open"

\* C29: of the handlers a declared body type matches, none is installed when
\* it matches several and parseBodiesOnWildcard is false, all are when it is
\* true, and the one handler of a type matching exactly one is installed
\* always; a request body is handed to a built-in handler exactly when the
\* handler of its type is installed.
C29_WildcardBodiesParsedOnRequest ==
  /\ middleware # <<>> =>
       \A t \in method.payloads :
         /\ (Cardinality(Matching(t)) > 1 /\ ~options.parseBodiesOnWildcard)
              => Matching(t) \cap bodyMap({t}, options) = {}
         /\ (Cardinality(Matching(t)) > 1 /\ options.parseBodiesOnWildcard)
              => Matching(t) \subseteq bodyMap(method.payloads, options)
         /\ Cardinality(Matching(t)) = 1
              => Matching(t) \subseteq bodyMap(method.payloads, options)
  /\ (BodyStageRan /\ ~Rejected415) =>
       (HandledByBodyHandler <=>
          \E t \in method.payloads :
            /\ req.contentType \in Matching(t)
            /\ Cardinality(Matching(t)) = 1 \/ options.parseBodiesOnWildcard)

\* parseBodiesOnWildcard with application/*: the urlencoded handler read the
\* request's body.
C29_Witness ==
  /\ method.payloads = {"application/*"}
  /\ options.parseBodiesOnWildcard
  /\ req.contentType = "application/x-www-form-urlencoded"
  /\ req.bodyStream = "read"


\* ------------------------------------------------- claims on the engines
\* The JSON handler is installed and the schema document parses: the
\* document is handed to an engine's compile.
JsonCompileAttempted ==
  /\ built.state # "no"
  /\ "application/json" \in compiling(method, options)
  /\ method.schema = "valid"

\* C26: each addJsonSchema call registers its key in the engine it was given
\* (the one passed as options.ajv, else the module's own) and in no other;
\* and a handler whose JSON schema refers to a key was constructed without
\* an exception only if that key had been added, before the construction, to
\* the engine that compiles the operation.
C26_SchemasRegisteredPerEngine ==
  /\ customSchemas = {c[1] : c \in {d \in calls : d[2]}}
  /\ ajvSchemas = {c[1] : c \in {d \in calls : ~d[2]}}
  /\ (JsonCompileAttempted /\ method.ref # "none" /\ built.state = "ok")
       => <<method.ref, options.ajv # "default">> \in built.before

\* The key was added to the caller's engine only, and the handler that
\* compiles with that engine was constructed.
C26_Witness ==
  /\ JsonCompileAttempted
  /\ method.ref = "product"
  /\ options.ajv = "custom"
  /\ built.state = "ok"
  /\ built.before = {<<"product", TRUE>>}
  /\ ajvSchemas = {}

\* C30: a JSON schema document naming draft-03 that is handed to an engine
\* was converted to draft-04 first, whichever engine compiles it.
C30_Draft03AlwaysUpgraded ==
  (JsonCompileAttempted /\ method.draft = "03") => built.upgraded

\* C30, amended: a draft-03 document is converted to draft-04 before it is
\* compiled exactly when the module's own engine compiles it; an engine
\* passed as options.ajv is handed the document as written. A document of
\* another draft is never converted.
C30_Draft03UpgradedForDefaultEngine ==
  /\ (JsonCompileAttempted /\ method.draft = "03")
       => (built.upgraded <=> options.ajv = "default")
  /\ (JsonCompileAttempted /\ method.draft # "03") => ~built.upgraded

\* A draft-03 document compiled by the module's engine after conversion.
C30_Witness ==
  /\ JsonCompileAttempted
  /\ method.draft = "03"
  /\ options.ajv = "default"
  /\ built.state = "ok"
  /\ built.upgraded

\* The kinds of schema the operation declares: the header declarations
\* (every operation has the standard ones), the query parameters, and the
\* schema or form parameters of its bodies ("other": of a body that has no
\* built-in handler).
DeclaredKinds ==
  {"header"}
  \cup (IF method.queryParameters.present THEN {"query"} ELSE {})
  \cup (IF method.formParameters THEN {"form"} ELSE {})
  \cup (IF method.type.present THEN {"json"} ELSE {})
  \cup (IF method.schema = "none" THEN {}
        ELSE {IF "application/json" \in TypePattern(t) THEN "json"
              ELSE IF "text/xml" \in TypePattern(t) THEN "xml"
              ELSE "other" :
                t \in method.payloads \ {"multipart/form-data",
                                         "application/x-www-form-urlencoded"}})

\* The kinds among them whose handler the construction installs.
InstalledKinds ==
  (IF method.queryParameters.present THEN {"query"} ELSE {})
  \cup {"form" : h \in {g \in bodyMap(method.payloads, options) :
                          /\ method.formParameters
                          /\ g \notin {"application/json", "text/xml"}}}
  \cup {IF h = "text/xml" THEN "xml" ELSE "json" :
          h \in {g \in bodyMap(method.payloads, options) :
                   \/ method.schema # "none"
                        /\ g \in {"application/json", "text/xml"}
                   \/ method.type.present /\ g = "application/json"}}

JsonTypeValidated ==
  /\ method.type.present
  /\ "ospreyContentType" \in passed \cup failed
  /\ req.bodyStream = "read"
  /\ req.body # Undefined

Keys == DOMAIN req.body

\* The constraints of the type the body violates, by the keyword of the
\* error each is reported with ("primary": the properties of the type).
ViolatedConstraints ==
  (IF "foo" \in Keys /\ "str" \in DOMAIN req.body["foo"]
     THEN {} ELSE {"primary"})
  \cup (IF method.type.minProperties > 0
             /\ Cardinality(Keys) < method.type.minProperties
          THEN {"minProperties"} ELSE {})
  \cup (IF method.type.maxProperties > 0
             /\ Cardinality(Keys) > method.type.maxProperties
          THEN {"maxProperties"} ELSE {})
  \cup (IF method.type.additionalProperties = "false" /\ Keys # Keys \cap {"foo"}
          THEN {"additionalProperties"} ELSE {})

\* The constraints the signalled error reports.
ReportedConstraints ==
  {IF doneErr.requestErrors[i].keyword \in {"required", "type"}
     THEN "primary" ELSE doneErr.requestErrors[i].keyword :
     i \in 1..Len(doneErr.requestErrors)}

\* The first of the passes primary, minProperties, maxProperties,
\* additionalProperties that the body violates.
FirstViolated ==
  CASE "primary" \in ViolatedConstraints -> "primary"
    [] "minProperties" \in ViolatedConstraints -> "minProperties"
    [] "maxProperties" \in ViolatedConstraints -> "maxProperties"
    [] OTHER -> "additionalProperties"

C23_AcceptedIffCountsAndKeysFit ==
  JsonTypeValidated /\ "primary" \notin ViolatedConstraints =>
    ("ospreyContentType" \in passed <=> ViolatedConstraints = {})

\* The stage of a signalled error: the one stage that called next(err).
FailedStage == CHOOSE stage \in failed : TRUE

\* The body handler the request's Content-Type selected.
SelectedHandler == typeIs(req.contentType, method.payloads)

\* The body reader of the request failed.
ReaderFailed ==
  /\ "ospreyContentType" \in failed
  /\ req.reader \in {"parse", "limit"}

\* The body was read and a validator of the body rejected it.
BodyRejectedByValidator ==
  /\ "ospreyContentType" \in failed
  /\ req.reader = "ok"
  /\ SelectedHandler # "multipart/form-data"

\* C24: when the reader of a body fails, no validator of the body runs and
\* the error signalled is the reader's, 400 for malformed input, without the
\* ramlValidation marker and without requestErrors; an error of a validator
\* carries both.
C24_ReaderErrorsAreNotValidationErrors ==
  /\ ReaderFailed =>
       /\ reports = <<>>
       /\ validateErrors = <<>>
       /\ req.body = Undefined
       /\ done = "error"
       /\ doneErr = ReaderError(req.reader)
       /\ ~doneErr.ramlValidation
       /\ doneErr.requestErrors = <<>>
       /\ req.reader = "parse" => doneErr.status = 400
  /\ BodyRejectedByValidator =>
       /\ doneErr.ramlValidation
       /\ doneErr.requestErrors # <<>>

\* A malformed JSON body sent to an operation that validates JSON bodies.
C24_Witness ==
  /\ ReaderFailed
  /\ req.reader = "parse"
  /\ SelectedHandler = "application/json"
  /\ JsonValidated
  /\ doneErr.status = 400

\* The category of the entries a stage's validation error lists.
StageCategory ==
  CASE FailedStage = "ospreyMethodHeader" -> "header"
    [] FailedStage = "ospreyQuery" -> "query"
    [] FailedStage = "ospreyContentType" ->
         (CASE SelectedHandler = "application/json" -> "json"
            [] SelectedHandler = "text/xml" -> "xml"
            [] OTHER -> "form")
    [] OTHER -> "none"

\* A validation error is well formed: status 400 and at least one entry,
\* each of the category of the stage that signalled it.
MarkedErrorsAreValidationErrors ==
  done = "error" /\ doneErr.ramlValidation =>
    /\ doneErr.status = 400
    /\ doneErr.requestErrors # <<>>
    /\ Cardinality(failed) = 1
    /\ \A i \in 1..Len(doneErr.requestErrors) :
         doneErr.requestErrors[i].type = StageCategory

\* An error without the marker lists nothing; 406 and 415 never carry it.
UnmarkedErrorsListNothing ==
  done = "error" =>
    /\ ~doneErr.ramlValidation => doneErr.requestErrors = <<>>
    /\ doneErr.status \in {406, 415} => ~doneErr.ramlValidation

UrlencodedValidated ==
  /\ method.formParameters
  /\ "ospreyContentType" \in passed \cup failed
  /\ SelectedHandler = "application/x-www-form-urlencoded"
  /\ req.reader = "ok"

\* C28: for a url-encoded body with declared form parameters, req.body is
\* replaced by the sanitized parameters of the declaration only when they
\* validate; when they do not, a 400 validation error of category form is
\* signalled and req.body is the parsed body as it came.
C28_BodyReplacedOnlyWhenValid ==
  UrlencodedValidated =>
    LET body == sanitize(UrlencodedParameters, req.rawBody)
        valid == validate(UrlencodedParameters, body) = <<>>
    IN  /\ "ospreyContentType" \in passed <=> valid
        /\ valid =>
             /\ req.body = body
             /\ DOMAIN req.body \subseteq {"a", "b"}
        /\ ~valid =>
             /\ req.body = req.rawBody
             /\ done = "error"
             /\ doneErr.status = 400
             /\ doneErr.ramlValidation
             /\ doneErr.requestErrors # <<>>
             /\ \A i \in 1..Len(doneErr.requestErrors) :
                  doneErr.requestErrors[i].type = "form"

\* An invalid form whose sanitized parameters differ from the parsed body.
C28_Witness ==
  /\ UrlencodedValidated
  /\ "ospreyContentType" \in failed
  /\ req.body = req.rawBody
  /\ sanitize(UrlencodedParameters, req.rawBody) # req.rawBody

EmptyOperationChain ==
  <<"resourcePathAttacher", "ospreyMethodHeader">>
  \o (IF options.discardUnknownBodies THEN <<"discardBody">> ELSE <<>>)
  \o (IF options.discardUnknownQueryParameters
        THEN <<"ospreyFastQuery">> ELSE <<>>)

\* C31: ospreyMethodHandler called without an operation does not throw: it
\* returns the middleware of an operation that declares no headers, no
\* body, no responses and no query parameters.
C31_NoOperationIsEmptyOperation ==
  built.state # "no" /\ ~method.defined =>
    /\ built.state = "ok"
    /\ middleware = EmptyOperationChain

\* ------------------------------------------- claims on the stages' calls
\* The header stage has run and no other stage has thrown since.
HeaderStageAlone == HeaderStageRan /\ streamEvents = {}

\* Headers of the request that are declared and do not validate.
InvalidDeclaredHeaders ==
  {i \in 1..Len(req.rawHeaders) :
     /\ KnownHeader(req.rawHeaders[i][1])
     /\ ~validateHeader(schemas(method.headers)[req.rawHeaders[i][1]],
                        req.rawHeaders[i][1], req.rawHeaders[i][2]).conforms}

\* C32: the header stage calls its continuation exactly once per request:
\* with a 400 validation error when a header fails validation, without an
\* error otherwise; it never calls it again after an error, and a header
\* that is neither declared nor standard never makes the stage fail.
C32_HeaderStageCallsNextOnce ==
  HeaderStageAlone =>
    /\ thrown = 0
    /\ done # "rejected"
    /\ "ospreyMethodHeader" \in passed \cup failed
    /\ "ospreyMethodHeader" \in failed <=> InvalidDeclaredHeaders # {}
    /\ "ospreyMethodHeader" \in failed =>
         /\ done = "error"
         /\ doneErr.status = 400
         /\ doneErr.ramlValidation

\* ----------------------------------------- claims on the multipart session
EmptySession ==
  [received |-> {}, errored |-> FALSE, errors |-> <<>>, forwarded |-> <<>>,
   drained |-> {}]

RECURSIVE replay(_, _, _, _)
\* The session after the first n of the events evs, those named in skip
\* left out; every part keeps its arrival number.
replay(ps, evs, n, skip) ==
  IF n = 0 THEN EmptySession
  ELSE LET S == replay(ps, evs, n - 1, skip)
       IN  IF evs[n].name \in skip THEN S ELSE emitPart(S, ps, evs[n], n)

\* Number of parts received under a name.
Count(name) == Cardinality({i \in 1..Len(parts) : parts[i].name = name})

Finished == finishCalls = 2

Forwarded(type) == {i \in 1..Len(forwarded) : forwarded[i].type = type}

ForwardedParts == SelectSeq(forwarded, LAMBDA e : e.type \in {"field", "file"})

\* The requestErrors of the error event the session emitted, if any.
ErrorList ==
  IF Forwarded("error") = {} THEN <<>>
  ELSE forwarded[CHOOSE i \in Forwarded("error") : TRUE].value.requestErrors

Entries(list, name) == {i \in 1..Len(list) : list[i].dataPath = name}

\* The entry of an error object kept under a name, as a set of at most one.
Kept(errs, name) == {errs[i] : i \in {j \in 1..Len(errs) : errs[j].key = name}}

\* C3: when a declared field that does not permit repetition has arrived
\* twice or more, at most one part of that name was forwarded, no error
\* event is emitted before end-of-stream, and at end-of-stream the signalled
\* list holds exactly one entry for the name, with keyword repeat, while the
\* entries of every other name are those the session records with the
\* repeated field's parts left out.
C3_RepeatRecordedOnce ==
  \A n \in ParamNames :
    (method.formParameters /\ ~Params[n].repeat /\ Count(n) >= 2) =>
      /\ Cardinality({i \in 1..Len(forwarded) : forwarded[i].name = n}) <= 1
      /\ ~Finished => Forwarded("error") = {}
      /\ Finished =>
           /\ Cardinality(Forwarded("error")) = 1
           /\ Cardinality(Entries(ErrorList, n)) = 1
           /\ \A i \in Entries(ErrorList, n) : ErrorList[i].keyword = "repeat"
           /\ LET alone == replay(Params, parts, Len(parts), {n})
                  list == formatRamlErrors(
                            validationErrors(Params, alone.received,
                                             alone.errors), "form")
              IN  \A m \in ParamNames \ {n} :
                    {ErrorList[i] : i \in Entries(ErrorList, m)}
                      = {list[i] : i \in Entries(list, m)}

\* A finished session: `number` arrived twice, its first value was
\* forwarded, and another field recorded an error of its own.
C3_Witness ==
  /\ Finished
  /\ method.formParameters
  /\ Count("number") >= 2
  /\ \E i \in 1..Len(forwarded) : forwarded[i].name = "number"
  /\ \E i \in Entries(ErrorList, "items") : ErrorList[i].keyword = "type"
  /\ \E i \in Entries(ErrorList, "number") : ErrorList[i].keyword = "repeat"

\* Declared fields that are required and of which no part was received.
Missing ==
  {n \in ParamNames :
     method.formParameters /\ Params[n].required /\ Count(n) = 0}

\* C4: at end-of-stream the signalled list holds a `required` entry for a
\* declared field exactly when the field is declared required and no part
\* of that name was received, and a session with such a field ends with an
\* error event of status 400.
C4_RequiredIffMissing ==
  (Finished /\ method.formParameters) =>
    /\ \A n \in ParamNames :
         (\E i \in Entries(ErrorList, n) : ErrorList[i].keyword = "required")
           <=> n \in Missing
    /\ Missing # {} =>
         \E i \in Forwarded("error") : forwarded[i].value.status = 400

\* Error objects the processing of part k wrote into `errors`.
RecordedBy(k) ==
  LET before == replay(Params, parts, k - 1, {})
      after == replay(Params, parts, k, {})
  IN  {i \in 1..Len(after.errors) :
         \A j \in 1..Len(before.errors) : before.errors[j] # after.errors[i]}

\* C5: at end-of-stream the signalled list holds every error recorded for a
\* part during the session, and every required error synthesized then.
C5_EveryRecordedErrorSignalled ==
  (Finished /\ method.formParameters) =>
    /\ \A k \in 1..Len(parts) :
         LET after == replay(Params, parts, k, {})
         IN  \A i \in RecordedBy(k) :
               \E e \in 1..Len(ErrorList) :
                 /\ ErrorList[e].dataPath = after.errors[i].key
                 /\ ErrorList[e].keyword = after.errors[i].rule
                 /\ ErrorList[e].data = after.errors[i].value
    /\ LET synthesized == requiredErrors(ParamKeys, Params, received)
       IN  \A r \in 1..Len(synthesized) :
             \E e \in Entries(ErrorList, synthesized[r].key) :
               ErrorList[e].keyword = "required"

\* The part that has just arrived, sanitized as its declaration says.
Sanitized(ev) ==
  IF hasOwnProperty(Params, ev.name)
    THEN sanitizers(Params[ev.name], ev.value) ELSE ev.value

\* C6: a part that arrives after an error was recorded is not forwarded;
\* if its name is declared and its value is invalid, an error is recorded
\* under its name; if it is a file, its stream is resumed.
C6_NothingForwardedAfterError ==
  [][(/\ method.formParameters
      /\ errors # <<>>
      /\ Len(parts') = Len(parts) + 1) =>
       LET k == Len(parts')
           ev == parts'[k]
       IN  /\ forwarded' = forwarded
           /\ (/\ hasOwnProperty(Params, ev.name)
               /\ ~TypeOk(Params[ev.name].type, Sanitized(ev)))
                => Kept(errors', ev.name) # {}
           /\ ev.type = "file" => k \in drained']_vars

\* After an error, a valid declared file arrived: drained, not forwarded,
\* and an invalid field that followed had its error recorded.
C6_Witness ==
  /\ method.formParameters
  /\ Len(parts) = 3
  /\ parts[1].name = "number" /\ Kept(errors, "number") # {}
  /\ parts[2].name = "contents" /\ parts[2].type = "file" /\ 2 \in drained
  /\ parts[3].name = "items" /\ Kept(errors, "items") # {}
  /\ forwarded = <<>>

\* Names the operation declares for the multipart body.
Declared == IF method.formParameters THEN ParamNames ELSE {}

UndeclaredDiscarded(k) ==
  /\ \A i \in 1..Len(forwarded) : forwarded[i].name # parts[k].name
  /\ parts[k].name \notin received
  /\ Kept(errors, parts[k].name) = {}
  /\ Entries(ErrorList, parts[k].name) = {}
  /\ parts[k].type = "file" => k \in drained

\* C7 as stated: a part whose name is not declared is not forwarded, marks
\* nothing as received, appears in no error, and is drained if a file.
C7_UndeclaredNeverForwarded ==
  \A k \in 1..Len(parts) :
    parts[k].name \notin Declared => UndeclaredDiscarded(k)

\* C7, amended: the same, for a multipart body that declares formParameters
\* (without them emit is not overridden and every part is forwarded).
C7_UndeclaredDiscardedWhenParametersDeclared ==
  method.formParameters =>
    \A k \in 1..Len(parts) :
      parts[k].name \notin ParamNames => UndeclaredDiscarded(k)

\* An undeclared file and an undeclared field arrived between declared
\* parts of a session that then finished.
C7_Witness ==
  /\ method.formParameters
  /\ Finished
  /\ \E k \in 1..Len(parts) :
       parts[k].name \notin ParamNames /\ parts[k].type = "file"
         /\ k \in drained
  /\ \E k \in 1..Len(parts) :
       parts[k].name \notin ParamNames /\ parts[k].type = "field"
  /\ ForwardedParts # <<>>

\* C8: before end-of-stream neither finish nor an error event reaches the
\* listeners; at end-of-stream exactly one of them does: finish exactly
\* when no error was recorded and no required field is missing, otherwise
\* one error event with a non-empty list.
C8_OneTerminalOutcome ==
  /\ ~Finished => Forwarded("finish") = {} /\ Forwarded("error") = {}
  /\ Finished =>
       /\ Cardinality(Forwarded("finish")) + Cardinality(Forwarded("error")) = 1
       /\ Forwarded("finish") # {} <=> (errors = <<>> /\ Missing = {})
       /\ \A i \in Forwarded("error") :
            forwarded[i].value.requestErrors # <<>>

\* Part k recorded an error: a repeat, or a value that fails validation.
ErrorStep(k) ==
  LET before == replay(Params, parts, k - 1, {})
      name == parts[k].name
  IN  /\ hasOwnProperty(Params, name)
      /\ \/ isRepeat(before.received, Params, name)
         \/ ~validators(Params[name], Sanitized(parts[k]), name).valid

ErrorSteps(name) ==
  {k \in 1..Len(parts) : parts[k].name = name /\ ErrorStep(k)}

Max(S) == CHOOSE x \in S : \A y \in S : y <= x


\* The part whose error an entry of the list carries, and the first part
\* that recorded an error under the entry's name.
CausePart(e) == Max(ErrorSteps(e.dataPath))

FirstErrorPart(e) == Min(ErrorSteps(e.dataPath))

KeyIndex(name) == CHOOSE i \in 1..Len(ParamKeys) : ParamKeys[i] = name

\* C9 as stated: in the signalled list the errors caused by parts stand in
\* the arrival order of those parts, and the required errors follow them.
C9_PartErrorsThenRequired ==
  (Finished /\ method.formParameters) =>
    \A i \in 1..Len(ErrorList) : \A j \in 1..Len(ErrorList) :
      i < j =>
        /\ ErrorList[i].keyword = "required"
             => ErrorList[j].keyword = "required"
        /\ (ErrorList[i].keyword # "required"
              /\ ErrorList[j].keyword # "required")
             => CausePart(ErrorList[i]) < CausePart(ErrorList[j])

\* C9, amended: the required errors come first, in declaration order; the
\* errors caused by parts follow, one per name, in the order in which each
\* name first had an error recorded.
C9_RequiredThenPartErrors ==
  (Finished /\ method.formParameters) =>
    \A i \in 1..Len(ErrorList) : \A j \in 1..Len(ErrorList) :
      i < j =>
        /\ ErrorList[j].keyword = "required"
             => /\ ErrorList[i].keyword = "required"
                /\ KeyIndex(ErrorList[i].dataPath)
                     < KeyIndex(ErrorList[j].dataPath)
        /\ (ErrorList[i].keyword # "required"
              /\ ErrorList[j].keyword # "required")
             => FirstErrorPart(ErrorList[i]) < FirstErrorPart(ErrorList[j])

\* A list with a required error followed by two part errors, the first of
\* them written by a later part than the second.
C9_Witness ==
  /\ Finished
  /\ method.formParameters
  /\ Len(ErrorList) = 3
  /\ ErrorList[1].keyword = "required"
  /\ ErrorList[2].keyword = "repeat"
  /\ ErrorList[3].keyword = "type"
  /\ CausePart(ErrorList[2]) > CausePart(ErrorList[3])

\* Part k is declared, valid once sanitized, and no second occurrence of a
\* field that does not permit repetition.
Good(k) ==
  /\ parts[k].name \in ParamNames
  /\ TypeOk(Params[parts[k].name].type, Sanitized(parts[k]))
  /\ \/ Params[parts[k].name].repeat
     \/ \A j \in 1..(k - 1) : parts[j].name # parts[k].name

\* No declared part before part k was in error.
CleanBefore(k) ==
  \A j \in 1..(k - 1) : parts[j].name \in ParamNames => Good(j)

ExpectedForwarded ==
  LET idx == SelectSeq([k \in 1..Len(parts) |-> k],
                       LAMBDA k : Good(k) /\ CleanBefore(k))
  IN  [i \in 1..Len(idx) |->
         [parts[idx[i]] EXCEPT !.value = Sanitized(parts[idx[i]])]]

\* C10: while no error has been recorded, every declared part that passes
\* validation is forwarded once, in arrival order, with its sanitized
\* value; a field declared repeat: true on each occurrence.
C10_ValidPartsForwardedSanitized ==
  method.formParameters => ForwardedParts = ExpectedForwarded

\* ------------------------------------------- claims on concurrent requests
\* What a request that delivered the parts evs and fin finish events has
\* received, recorded and forwarded when it is processed alone.
Alone(evs, fin) ==
  LET S == IF method.formParameters
             THEN replay(Params, evs, Len(evs), {})
             ELSE [EmptySession EXCEPT !.forwarded = evs]
  IN  IF fin < 2 THEN S
      ELSE IF method.formParameters THEN emitFinish(S, Params)
           ELSE busboyEmit(S, FinishEvent)

\* C11: with the parts of two multipart requests to the same operation
\* interleaved in any order, each request's received set, recorded errors,
\* failed flag, forwarded parts and final error list are those the request
\* has when it is processed alone.
C11_RequestsAreIsolated ==
  /\ Session = Alone(parts, finishCalls)
  /\ PeerSession = Alone(peer.parts, peer.finishCalls)

\* Both requests finished after interleaved parts: the first sent `number`
\* once and finished cleanly, the second sent it twice and ended in error.
C11_Witness ==
  /\ method.formParameters
  /\ finishCalls = 2 /\ peer.finishCalls = 2
  /\ Len(parts) = 1 /\ parts[1].name = "number"
  /\ Len(peer.parts) = 2
  /\ peer.parts[1].name = "number" /\ peer.parts[2].name = "number"
  /\ Forwarded("finish") # {}
  /\ \E i \in 1..Len(peer.forwarded) : peer.forwarded[i].type = "error"



\* Position of a stage in the chain order of the claim: headers, body,
\* Accept, query.
StageRank(stage) ==
  CASE stage = "resourcePathAttacher" -> 0
    [] stage = "ospreyMethodHeader" -> 1
    [] stage \in {"ospreyContentType", "discardBody"} -> 2
    [] stage = "ospreyAccepts" -> 3
    [] OTHER -> 4

\* The statuses a stage signals.
StageStatuses(stage) ==
  CASE stage = "ospreyMethodHeader" -> {400}
    [] stage = "ospreyContentType" -> {400, 413, 415}
    [] stage = "ospreyAccepts" -> {406}
    [] stage = "ospreyQuery" -> {400}
    [] OTHER -> {500}

\* C36: the one error signalled for a request is that of the earliest
\* failing stage in the order header, body, Accept, query: every stage ahead
\* of it passed, no stage behind it is started or reads its part of the
\* request, and no later error replaces the one signalled.
C36_EarliestFailingStageWins ==
  /\ [](\A i, j \in 1..Len(middleware) :
          i < j => StageRank(middleware[i]) < StageRank(middleware[j]))
  /\ [](done = "error" =>
          /\ Cardinality(failed) = 1
          /\ doneErr.status \in StageStatuses(FailedStage)
          /\ \A i \in 1..Len(middleware) :
               /\ StageRank(middleware[i]) < StageRank(FailedStage)
                    => middleware[i] \in passed
               /\ StageRank(middleware[i]) > StageRank(FailedStage)
                    => \A k \in 1..Len(log) : log[k] # middleware[i]
          /\ StageRank(FailedStage) < 2 => req.contentType = "unread"
          /\ StageRank(FailedStage) < 3 => req.accept = "unread"
          /\ StageRank(FailedStage) < 4 =>
               req.received = <<>> /\ req.query = "raw")
  /\ [][done = "error" =>
          done' = "error" /\ doneErr' = doneErr /\ log' = log]_vars

\* A header failed validation in a chain that checks a required query
\* parameter behind it: the query stage never saw the request.
C36_Witness ==
  /\ done = "error"
  /\ FailedStage = "ospreyMethodHeader"
  /\ \E i \in 1..Len(middleware) : middleware[i] = "ospreyQuery"
  /\ \E i \in 1..Len(method.queryParameters.params) :
       method.queryParameters.params[i].required
  /\ req.received = <<>>


C37_QueryHalf ==
  "ospreyQuery" \in failed =>
    /\ req.url = req.received
    /\ req.query = "raw"
    /\ req.queryObject = Req0.queryObject


\* The discard stage was started for the request.
DiscardStarted == \E i \in 1..Len(log) : log[i] = "discardBody"

\* C39: the discard stage passes control on once per request: at once when
\* the stream had ended already, otherwise on the first `end` or `error` of
\* the stream; a second event does not run the rest of the chain again.
C39_DiscardPassesControlOnce ==
  /\ [](DiscardStarted =>
          /\ \A i, j \in 1..Len(log) : log[i] = log[j] => i = j
          /\ doneCalls <= 1
          /\ ~draining =>
               \/ Running("discardBody")
               \/ "discardBody" \in passed /\ req.bodyStream = "ended"
          /\ draining /\ streamEvents = {} => Running("discardBody")
          /\ draining /\ streamEvents # {} =>
               /\ ~Running("discardBody")
               /\ "discardBody" \in passed => "end" \in streamEvents
               /\ "discardBody" \in failed =>
                    /\ "error" \in streamEvents
                    /\ done = "error"
                    /\ doneErr = StreamError)
  /\ [][streamEvents # {} /\ streamEvents' # streamEvents =>
          UNCHANGED <<index, log, passed, failed, done, doneErr,
                      doneCalls>>]_vars

\* The stream emitted `end` and then `error`, or the reverse, after the
\* chain had gone on: the stages behind the discard ran once.
C39_Witness ==
  /\ streamEvents = {"end", "error"}
  /\ "discardBody" \in passed
  /\ done = "handler"
  /\ doneCalls = 1
  /\ Len(log) = Len(middleware)
  /\ Len(log) >= 4

\* The session reached its terminal state: after end-of-stream one finish
\* (DONE(success)) or one error event (DONE(error)) went to the listeners.
SessionDone ==
  /\ Finished
  /\ Cardinality(Forwarded("finish")) + Cardinality(Forwarded("error")) = 1

\* C33: when the parser delivers the end-of-stream, every multipart session
\* eventually reaches DONE(success) or DONE(error), whatever parts it
\* received; a recorded error does not stop the processing of later parts:
\* the session stays open for them and a later file's stream is resumed.
C33_EverySessionTerminates ==
  /\ <>SessionDone
  /\ [][(errors # <<>> /\ Len(parts') = Len(parts) + 1) =>
          /\ session' = "open"
          /\ finishCalls' = 0
          /\ Forwarded("error")' = {}
          /\ parts'[Len(parts')].type = "file" => Len(parts') \in drained']_vars

\* A session that recorded errors for two fields, one after the other, and
\* ended with the error event.
C33_Witness ==
  /\ SessionDone
  /\ Len(errors) >= 2
  /\ Len(parts) = MaxParts
  /\ Forwarded("error") # {}


\* C34: constructing a handler leaves the operation it is given (its header,
\* query and form-field declarations) and the options as they were, and a
\* second construction from the same operation builds the same handler.
C34_ConstructionLeavesOperation ==
  [][built.state = "no" /\ built'.state # "no" =>
       /\ method' = method
       /\ options' = options
       /\ ospreyMethodHandler(method', options')
            = ospreyMethodHandler(method, options)
       /\ schemas(method'.headers) = schemas(method.headers)]_vars


\* C35: for a multipart request the body stage passes control on before any
\* part is read; the stages behind it and the handler run whatever the form
\* holds, and the errors of the form reach the application only as the
\* `error` event of req.form at end-of-stream, never as the chain's error.
C35_FormErrorsBypassChain ==
  /\ [](session = "open" =>
          /\ "ospreyContentType" \in passed
          /\ parts # <<>> => done = "handler")
  /\ [](Forwarded("error") # {} =>
          /\ Finished
          /\ done = "handler"
          /\ doneErr = NoError
          /\ doneCalls = 1)
  /\ [](done = "error" /\ session = "open" =>
          /\ failed \subseteq {"ospreyAccepts", "ospreyQuery"}
          /\ \A i \in 1..Len(doneErr.requestErrors) :
               doneErr.requestErrors[i].type # "form")
  /\ [][session = "none" /\ session' = "open" =>
          /\ parts' = <<>>
          /\ index' = index + 1
          /\ done' \in {"pending", "handler"}]_vars

\* An invalid form of a request that passed Accept negotiation and query
\* validation and reached the handler.
C35_Witness ==
  /\ {"ospreyAccepts", "ospreyQuery"} \subseteq passed
  /\ done = "handler"
  /\ Forwarded("error") # {}
  /\ errors # <<>>


====
